---- MODULE Spec2Model ----
(***************************************************************************)
(* Model-aware context/resource allocation subsystem of zen-mcp-fork:      *)
(* capability registry (utils/model_capabilities.py), token budgeter       *)
(* (utils/token_budgeter.py), file selector (utils/file_selector.py) and   *)
(* reasoning policy (utils/reasoning_policy.py).                           *)
(*                                                                         *)
(* Conventions.  A Python str is a sequence of one-character strings when  *)
(* the code inspects its characters (model ids), and a sequence of         *)
(* segments [src, len] when only its origin and its length matter (context *)
(* and file contents).  Optional[x] is <<>> for None and <<x>> otherwise.  *)
(* Fractions are whole percents.  The program is single-threaded: one call *)
(* runs at a time (pc), its locals live in frame, and ret holds the value  *)
(* the last completed call returned.                                       *)
(***************************************************************************)
EXTENDS Integers, Sequences, FiniteSets, TLC

VARIABLES pc, frame, ret, default_summarizer, DEFAULT_ALLOCATIONS, usage_history,
          last_adaptive, envelopes, handoff_history, selector, disk, file_cache, summary_cache, select_calls,
          calls_made

vars == <<pc, frame, ret, default_summarizer, DEFAULT_ALLOCATIONS, usage_history,
          last_adaptive, envelopes, handoff_history, selector, disk, file_cache, summary_cache, select_calls,
          calls_made>>

\* FileSelector: constructor arguments, the files on disk, the two caches,
\* the number of select_files calls made so far, and calls_made: how often
\* each path was read from disk (line 201) and how often the summarizer was
\* invoked for each cache key (line 435), apart for the invocations that
\* returned and those that raised
selector_state == <<selector, disk, file_cache, summary_cache, select_calls, calls_made>>

\* ReasoningPolicy: the class-level allocation table and the usage ledger;
\* last_adaptive is the caller's note of the retry sequence under way (model,
\* task, last attempt number and the reasoning_tokens it got), None outside one
policy_state == <<DEFAULT_ALLOCATIONS, usage_history, last_adaptive>>

\* HandoffManager: the envelope objects created so far (an object's identity
\* is its position) and the manager's handoff_history
handoff_state == <<envelopes, handoff_history>>

None == <<>>

Some(x) == <<x>>

(***************************************************************************)
(* Bounds of the model.                                                    *)
(***************************************************************************)
MaxTools == 1

HugeToolCount == 4644

MaxParts == 2

\* ---------------------------------------------------------------------
\* Generic helpers
\* ---------------------------------------------------------------------
Min2(a, b) == IF a <= b THEN a ELSE b

\* Python int() of the rational num/den (den > 0): truncation toward zero.
IntTrunc(num, den) == IF num >= 0 THEN num \div den ELSE -((-num) \div den)

RECURSIVE SumSeq(_)
SumSeq(s) ==
    IF s = <<>> THEN 0
    ELSE IF Len(s) = 1 THEN s[1]
    ELSE LET half == Len(s) \div 2
         IN  SumSeq(SubSeq(s, 1, half)) + SumSeq(SubSeq(s, half + 1, Len(s)))

\* ---------------------------------------------------------------------
\* Text: a sequence of segments; len() and the default tokenizer
\* ---------------------------------------------------------------------
Text(src, n) == <<[src |-> src, len |-> n]>>

StrLen(text) == SumSeq([i \in 1..Len(text) |-> text[i].len])

default_tokenizer(text) == StrLen(text) \div 4

\* ---------------------------------------------------------------------
\* Model identifiers and the capability registry
\* ---------------------------------------------------------------------
UPPER == <<"A","B","C","D","E","F","G","H","I","J","K","L","M",
           "N","O","P","Q","R","S","T","U","V","W","X","Y","Z">>

LOWER == <<"a","b","c","d","e","f","g","h","i","j","k","l","m",
           "n","o","p","q","r","s","t","u","v","w","x","y","z">>

\* str.lower() on one character
LowerChar(c) == IF \E i \in 1..26 : UPPER[i] = c
                  THEN LOWER[CHOOSE i \in 1..26 : UPPER[i] = c]
                  ELSE c

IsPunct(c) == c \in {"-", "."}

\* model_id.lower().replace("-", "").replace(".", "")
Normalize(id) == LET low == [i \in 1..Len(id) |-> LowerChar(id[i])]
                     keep(c) == ~IsPunct(c)
                 IN  SelectSeq(low, keep)

ID_GPT5 == <<"g","p","t","-","5">>

ID_GPT5_MINI == <<"g","p","t","-","5","-","m","i","n","i">>

ID_GPT5_NANO == <<"g","p","t","-","5","-","n","a","n","o">>

ID_GPT41 == <<"g","p","t","-","4",".","1">>

ID_O3 == <<"o","3">>

ID_O3_MINI == <<"o","3","-","m","i","n","i">>

\* Registry keys in dict (insertion) order
CAPABILITY_KEYS == <<ID_GPT5, ID_GPT5_MINI, ID_GPT5_NANO, ID_GPT41, ID_O3, ID_O3_MINI>>

DefaultOverhead == [system |-> 200, tool_base |-> 300, per_tool |-> 80, json_mode |-> 200]

Caps(id, maxin, maxout, reasoning, rmax) ==
    [model_id |-> id, max_input_tokens |-> maxin, max_output_tokens |-> maxout,
     supports_reasoning |-> reasoning, reasoning_max_tokens |-> rmax,
     overhead_tokens |-> DefaultOverhead, safety_margin_pct |-> 7]

CAPABILITIES ==
    [k \in {CAPABILITY_KEYS[i] : i \in 1..Len(CAPABILITY_KEYS)} |->
        CASE k = ID_GPT5      -> Caps(k, 400000, 128000, TRUE, Some(128000))
          [] k = ID_GPT5_MINI -> Caps(k, 400000, 128000, TRUE, Some(64000))
          [] k = ID_GPT5_NANO -> Caps(k, 400000, 128000, TRUE, Some(32000))
          [] k = ID_GPT41     -> Caps(k, 1000000, 32768, FALSE, None)
          [] k = ID_O3        -> Caps(k, 200000, 65536, FALSE, None)
          [] k = ID_O3_MINI   -> Caps(k, 200000, 65536, FALSE, None)]

\* Callers' spellings: an alias that only matches after normalisation, and
\* identifiers that match no key at all.
ID_ALIAS_GPT5 == <<"G","P","T","5">>

ID_ALIAS_GPT41 == <<"g","p","t","4","1">>

ID_UNKNOWN == <<"c","l","a","u","d","e">>

ID_UNKNOWN2 == <<"g","p","t","-","6">>

RegisteredIds == {CAPABILITY_KEYS[i] : i \in 1..Len(CAPABILITY_KEYS)}

UnregisteredIds == {ID_UNKNOWN, ID_UNKNOWN2}

ModelIds == RegisteredIds \cup {ID_ALIAS_GPT5, ID_ALIAS_GPT41} \cup UnregisteredIds

\* get_model_capabilities: the registry key of the profile, or None
get_model_capabilities(model_id) ==
    IF model_id \in DOMAIN CAPABILITIES
      THEN Some(CAPABILITIES[model_id])
      ELSE LET hits == {i \in 1..Len(CAPABILITY_KEYS) :
                           Normalize(CAPABILITY_KEYS[i]) = Normalize(model_id)}
           IN  IF hits = {} THEN None
               ELSE Some(CAPABILITIES[CAPABILITY_KEYS[CHOOSE i \in hits : \A j \in hits : i <= j]])

\* An overhead that forgets the per-tool share
calculate_token_overhead_flat(model_id, tools_enabled, tool_count, json_mode) ==
    LET caps == get_model_capabilities(model_id)
    IN  IF caps = None THEN 500
        ELSE caps[1].overhead_tokens.system
             + (IF tools_enabled THEN caps[1].overhead_tokens.tool_base ELSE 0)
             + (IF json_mode THEN caps[1].overhead_tokens.json_mode ELSE 0)

calculate_token_overhead(model_id, tools_enabled, tool_count, json_mode) ==
    LET caps == get_model_capabilities(model_id)
    IN  IF caps = None THEN 500
        ELSE caps[1].overhead_tokens.system
             + (IF tools_enabled
                  THEN caps[1].overhead_tokens.tool_base
                       + caps[1].overhead_tokens.per_tool * tool_count
                  ELSE 0)
             + (IF json_mode THEN caps[1].overhead_tokens.json_mode ELSE 0)

\* The double max_input_tokens * (1 - safety_margin_pct).  1 - 0.07 is the
\* double 0.92999999999999993783..., so the product lies just below the exact
\* value max_input * 93 / 100; it rounds back to that whole number for
\* 200_000 and 400_000 and to 929999.9999999999 for 1_000_000.
\* whole: the exact product; short: the double is just below it.
MarginProduct(caps) ==
    [whole |-> (caps.max_input_tokens * (100 - caps.safety_margin_pct)) \div 100,
     short |-> caps.max_input_tokens = 1000000]

\* int(available - overhead) for the double `available`
IntOfAvailableMinus(avail, overhead) ==
    LET d == avail.whole - overhead
    IN  IF avail.short /\ d > 0 THEN d - 1 ELSE d

get_effective_token_limit(model_id, tools_enabled, tool_count, json_mode) ==
    LET caps == get_model_capabilities(model_id)
    IN  IF caps = None THEN 100000
        ELSE IntOfAvailableMinus(MarginProduct(caps[1]),
                 calculate_token_overhead(model_id, tools_enabled, tool_count, json_mode))

supports_reasoning(model_id) ==
    LET caps == get_model_capabilities(model_id)
    IN  IF caps = None THEN FALSE ELSE caps[1].supports_reasoning

get_max_reasoning_tokens(model_id) ==
    LET caps == get_model_capabilities(model_id)
    IN  IF caps # None /\ caps[1].supports_reasoning
          THEN caps[1].reasoning_max_tokens
          ELSE None

ToolCounts == (0..MaxTools) \cup {HugeToolCount}

\* ---------------------------------------------------------------------
\* ReasoningPolicy: task kinds, effort levels, allocation table
\* ---------------------------------------------------------------------
TaskKinds == {"debugging", "planning", "architecture", "security_audit",
              "code_review", "refactoring", "analysis", "consensus",
              "testing", "documentation", "chat", "summarization", "general"}

\* escalation_path of escalate_reasoning; also the five ReasoningEffort levels
ESCALATION_PATH == <<"minimal", "low", "medium", "high", "max">>

Efforts == {ESCALATION_PATH[i] : i \in 1..Len(ESCALATION_PATH)}

ReasoningConfig(effort, base_tokens) ==
    [effort |-> effort, base_tokens |-> base_tokens, escalation_enabled |-> TRUE]

INITIAL_ALLOCATIONS ==
    [t \in TaskKinds |->
        CASE t = "debugging"      -> ReasoningConfig("high", 12000)
          [] t = "planning"       -> ReasoningConfig("high", 10000)
          [] t = "architecture"   -> ReasoningConfig("high", 10000)
          [] t = "security_audit" -> ReasoningConfig("high", 8000)
          [] t = "code_review"    -> ReasoningConfig("medium", 6000)
          [] t = "refactoring"    -> ReasoningConfig("medium", 6000)
          [] t = "analysis"       -> ReasoningConfig("medium", 5000)
          [] t = "consensus"      -> ReasoningConfig("medium", 5000)
          [] t = "testing"        -> ReasoningConfig("low", 3000)
          [] t = "documentation"  -> ReasoningConfig("low", 2000)
          [] t = "chat"           -> ReasoningConfig("low", 2000)
          [] t = "summarization"  -> ReasoningConfig("minimal", 1000)
          [] t = "general"        -> ReasoningConfig("low", 3000)]

\* EFFORT_PERCENTAGES, in thousandths
EFFORT_PERCENTAGES ==
    [e \in Efforts |->
        CASE e = "minimal" -> 5
          [] e = "low"     -> 80
          [] e = "medium"  -> 330
          [] e = "high"    -> 670
          [] e = "max"     -> 1000]

\* The table as the class body creates it, an empty ledger (__init__)
\* HandoffManager.__init__
InitHandoffState ==
    /\ envelopes = <<>>
    /\ handoff_history = <<>>

InitPolicyState ==
    /\ DEFAULT_ALLOCATIONS = INITIAL_ALLOCATIONS
    /\ usage_history = <<>>
    /\ last_adaptive = None

\* ---------------------------------------------------------------------
\* FileSelector: files, relevance
\* ---------------------------------------------------------------------
MaxSelectCalls == 2

PATH_AUTH == "/project/auth.py"

PATH_README == "/project/readme.md"

PATH_CONFIG == "/project/settings.json"

Paths == {PATH_AUTH, PATH_README, PATH_CONFIG}

\* The words a path is made of (substring tests are made word by word) and
\* its Path(...).suffix.lower()
PathWords(path) ==
    CASE path = PATH_AUTH   -> {"project", "auth", "py"}
      [] path = PATH_README -> {"project", "readme", "md"}
      [] path = PATH_CONFIG -> {"project", "settings", "json"}

PathSuffix(path) ==
    CASE path = PATH_AUTH   -> ".py"
      [] path = PATH_README -> ".md"
      [] path = PATH_CONFIG -> ".json"

CODE_EXTENSIONS == {".py", ".js", ".ts", ".jsx", ".tsx", ".java", ".cpp", ".c", ".h",
                    ".cs", ".go", ".rs", ".rb", ".php", ".swift", ".kt", ".scala",
                    ".r", ".m", ".mm", ".sh", ".bash", ".zsh", ".fish"}

CONFIG_EXTENSIONS == {".json", ".yaml", ".yml", ".toml", ".ini", ".cfg", ".conf",
                      ".env", ".properties"}

DOC_EXTENSIONS == {".md", ".rst", ".txt", ".adoc", ".tex"}

\* len() of the words a task description is made of
WordLen(w) ==
    CASE w \in {"fix", "bug"} -> 3
      [] w \in {"auth", "test"} -> 4
      [] w \in {"debug", "error"} -> 5
      [] w = "config" -> 6
      [] w = "project" -> 7
      [] OTHER -> 8

\* A file content: a text with the words of its first 1000 characters
FileContent(src, n, words) == [text |-> Text(src, n), words |-> words]

CONTENT_SMALL == FileContent("small", 80002, {"auth", "exception"})

CONTENT_BIG == FileContent("big", 400001, {"readme"})

CONTENT_EMPTY == FileContent("empty", 0, {})

\* A path on disk: missing, present but unreadable, or readable
OnDisk(exists, readable, content) ==
    [exists |-> exists, readable |-> readable, content |-> content]

MISSING == OnDisk(FALSE, FALSE, CONTENT_EMPTY)

UNREADABLE == OnDisk(TRUE, FALSE, CONTENT_EMPTY)

Readable(content) == OnDisk(TRUE, TRUE, content)

DiskOf(a, b, c) ==
    [p \in Paths |-> CASE p = PATH_AUTH -> a [] p = PATH_README -> b [] p = PATH_CONFIG -> c]

DiskChoices ==
    {DiskOf(Readable(CONTENT_BIG), Readable(CONTENT_SMALL), Readable(CONTENT_SMALL)),
     DiskOf(Readable(CONTENT_BIG), Readable(CONTENT_BIG), Readable(CONTENT_SMALL)),
     DiskOf(Readable(CONTENT_SMALL), MISSING, Readable(CONTENT_BIG)),
     DiskOf(UNREADABLE, Readable(CONTENT_BIG), Readable(CONTENT_EMPTY))}

\* FileSelector.__init__
SelectorChoices ==
    {[default_summarizer |-> FALSE, cache_summaries |-> TRUE],
     [default_summarizer |-> TRUE, cache_summaries |-> TRUE],
     [default_summarizer |-> TRUE, cache_summaries |-> FALSE]}

\* key counted once more in the counter f
Bump(f, key) ==
    [k \in (DOMAIN f) \cup {key} |->
        IF k = key THEN (IF key \in DOMAIN f THEN f[key] ELSE 0) + 1 ELSE f[k]]

NoCallsMade == [reads |-> <<>>, returned |-> <<>>, raised |-> <<>>]

InitSelectorState ==
    /\ selector \in SelectorChoices
    /\ disk \in DiskChoices
    /\ file_cache = <<>>
    /\ summary_cache = <<>>
    /\ select_calls = 0
    /\ calls_made = NoCallsMade

\* No FileSelector in use
NoSelectorState ==
    /\ selector = [default_summarizer |-> FALSE, cache_summaries |-> FALSE]
    /\ disk = [p \in Paths |-> MISSING]
    /\ file_cache = <<>>
    /\ summary_cache = <<>>
    /\ select_calls = 0
    /\ calls_made = NoCallsMade

\* FileInfo.compute_hash: a digest of the content, "" for an empty content
compute_hash(content) ==
    IF StrLen(content.text) = 0 THEN <<>> ELSE <<"sha256", content.text>>

\* `word in text` for a lower-cased path or content head
InWords(w, words) == w \in words

\* task_lower.split() as a sequence of words; substring tests on the whole
\* task are tests on its words
TaskHas(task, w) == \E k \in 1..Len(task) : task[k] = w

KeywordBoost(task, path, content) ==
    SumSeq([k \in 1..Len(task) |->
               IF WordLen(task[k]) > 3
                 THEN (IF InWords(task[k], PathWords(path)) THEN 20 ELSE 0)
                      + (IF InWords(task[k], content.words) THEN 10 ELSE 0)
                 ELSE 0])

SpecialBoost(task, path, content) ==
    (IF TaskHas(task, "test") /\ InWords("test", PathWords(path)) THEN 15 ELSE 0)
    + (IF (TaskHas(task, "error") \/ TaskHas(task, "bug"))
          /\ (InWords("error", content.words) \/ InWords("exception", content.words))
         THEN 15 ELSE 0)
    + (IF TaskHas(task, "config") /\ PathSuffix(path) \in CONFIG_EXTENSIONS
         THEN 20 ELSE 0)

BaseScore(path) ==
    IF PathSuffix(path) \in CODE_EXTENSIONS THEN 50
    ELSE IF PathSuffix(path) \in CONFIG_EXTENSIONS THEN 40
    ELSE IF PathSuffix(path) \in DOC_EXTENSIONS THEN 30
    ELSE 20

LevelOf(score) ==
    IF score >= 80 THEN "HIGH"
    ELSE IF score >= 60 THEN "MEDIUM"
    ELSE IF score >= 40 THEN "LOW"
    ELSE "MINIMAL"

\* A scoring that leaves out the cap of line 284
calculate_relevance_uncapped(path, content, task_context, is_mentioned, is_error) ==
    IF is_mentioned THEN <<100, "CRITICAL">>
    ELSE IF is_error THEN <<95, "CRITICAL">>
    ELSE LET score == BaseScore(path)
                      + (IF task_context # None /\ task_context[1] # <<>>
                           THEN KeywordBoost(task_context[1], path, content)
                                + SpecialBoost(task_context[1], path, content)
                           ELSE 0)
         IN  <<score, LevelOf(score)>>

\* _calculate_relevance: <<score, level>>
calculate_relevance(path, content, task_context, is_mentioned, is_error) ==
    IF is_mentioned THEN <<100, "CRITICAL">>
    ELSE IF is_error THEN <<95, "CRITICAL">>
    ELSE LET boosted == BaseScore(path)
                        + (IF task_context # None /\ task_context[1] # <<>>
                             THEN KeywordBoost(task_context[1], path, content)
                                  + SpecialBoost(task_context[1], path, content)
                             ELSE 0)
             score == Min2(boosted, 99)
         IN  <<score, LevelOf(score)>>

FileInfo(path, content, token_count, score, level, file_hash, is_summarized) ==
    [path |-> path, content |-> content, size_bytes |-> StrLen(content.text),
     token_count |-> token_count, relevance_score |-> score,
     relevance_level |-> level, file_hash |-> file_hash,
     is_summarized |-> is_summarized]

\* estimate_tokens_for_model: every registered tokenizer is the default one
estimate_tokens_for_model(model, text) == default_tokenizer(text)

\* One iteration of the loading loop (lines 188-220) for file_path:
\* the FileInfo, or None when the path is skipped
LoadOne(file_path, cache, model, task_context, mentioned_set, error_set) ==
    IF ~disk[file_path].exists THEN None
    ELSE IF file_path \notin DOMAIN cache /\ ~disk[file_path].readable THEN None
    ELSE LET content == IF file_path \in DOMAIN cache THEN cache[file_path]
                        ELSE disk[file_path].content
             rel == calculate_relevance(file_path, content, task_context,
                                        file_path \in mentioned_set,
                                        file_path \in error_set)
         IN  Some(FileInfo(file_path, content,
                           estimate_tokens_for_model(model, content.text),
                           rel[1], rel[2], compute_hash(content), FALSE))

\* file_cache after the loading loop over files
CacheAfterLoad(files, cache) ==
    LET read == {files[k] : k \in {j \in 1..Len(files) :
                                      /\ disk[files[j]].exists
                                      /\ disk[files[j]].readable}}
    IN  [p \in (DOMAIN cache) \cup read |->
            IF p \in DOMAIN cache THEN cache[p] ELSE disk[p].content]

RECURSIVE ReadsAfterLoad(_, _, _)
\* The read counts after the loading loop over files: line 201 reads a path
\* that exists, is not in the cache, and can be opened
ReadsAfterLoad(files, cache, reads) ==
    IF files = <<>> THEN reads
    ELSE LET p == Head(files)
             read == /\ disk[p].exists /\ disk[p].readable
                     /\ p \notin DOMAIN cache
         IN  ReadsAfterLoad(Tail(files),
                            IF read THEN [q \in (DOMAIN cache) \cup {p} |->
                                             IF q = p THEN disk[p].content ELSE cache[q]]
                            ELSE cache,
                            IF read THEN Bump(reads, p) ELSE reads)

\* Stable descending insertion by relevance_score
InsertByScore(sorted, info) ==
    LET ahead == {i \in 1..Len(sorted) : info.relevance_score > sorted[i].relevance_score}
        pos == IF ahead = {} THEN Len(sorted) + 1
               ELSE CHOOSE i \in ahead : \A j \in ahead : i <= j
    IN  SubSeq(sorted, 1, pos - 1) \o <<info>> \o SubSeq(sorted, pos, Len(sorted))

RECURSIVE LoadAndScore(_, _, _, _, _, _, _)
\* _load_and_score_files: the loaded infos sorted by relevance (descending)
LoadAndScore(files, sorted, cache, model, task_context, mentioned_set, error_set) ==
    IF files = <<>> THEN sorted
    ELSE LET one == LoadOne(Head(files), cache, model, task_context,
                            mentioned_set, error_set)
         IN  LoadAndScore(Tail(files),
                          IF one = None THEN sorted ELSE InsertByScore(sorted, one[1]),
                          cache, model, task_context, mentioned_set, error_set)

\* ---------------------------------------------------------------------
\* TokenBudgeter.build_context
\* ---------------------------------------------------------------------
DIGITS == <<"1","2","3","4","5","6","7","8","9">>

PartId(i) == <<"p", DIGITS[i]>>

\* f"{part.id}_summarized"
SummarizedId(id) == id \o <<"_summarized">>

\* ContextPart; summarizer: whether the part carries its own summarizer;
\* original_id: metadata["original_id"] of a condensed part
ContextPart(id, priority, content, hard_required, summarizer, original_id) ==
    [id |-> id, priority |-> priority, content |-> content,
     hard_required |-> hard_required, summarizer |-> summarizer,
     original_id |-> original_id]

\* ContextPart.token_count
token_count(part) == default_tokenizer(part.content)

\* Inputs of build_context
Priorities == {50, 100}

ContentLens == {10, 399603}

BudgetModels == {ID_ALIAS_GPT5, ID_O3, ID_UNKNOWN}

ReserveChoices == {None, Some(150000)}

\* Only a hard-required part is ever condensed, so an optional part is drawn
\* without a summarizer of its own; and a part brings its own summarizer
\* only to a budgeter without a default one (line 153 calls either the same
\* way).
PartChoices(i, lens) ==
    UNION {{ContextPart(PartId(i), pr, Text(PartId(i), n), hr, sm, None) :
               pr \in Priorities, n \in lens,
               sm \in IF hr /\ ~default_summarizer THEN BOOLEAN ELSE {FALSE}} :
           hr \in BOOLEAN}

\* tools_enabled with its tool_count
ToolSettings == {<<FALSE, 0>>} \cup {<<TRUE, n>> : n \in ToolCounts}

\* build_context: no tools, the most tools of the small range, very many tools
BuildToolSettings == {<<FALSE, 0>>, <<TRUE, MaxTools>>, <<TRUE, HugeToolCount>>}

RECURSIVE PartListsOfLen(_, _)
PartListsOfLen(n, lens) ==
    IF n = 0 THEN {<<>>}
    ELSE {Append(ps, p) : ps \in PartListsOfLen(n - 1, lens), p \in PartChoices(n, lens)}

\* The part lists of up to MaxParts parts with contents of the lengths lens
PartListsOver(lens) == UNION {PartListsOfLen(n, lens) : n \in 0..MaxParts}

PartLists == PartListsOver(ContentLens)

\* The ceiling (token_budgeter.py lines 115-127)
BuildMaxTokens(model, tools_enabled, tool_count, json_mode, reserve_output_tokens) ==
    LET caps == get_model_capabilities(model)
    IN  IF caps # None
          THEN get_effective_token_limit(model, tools_enabled, tool_count, json_mode)
               - (IF reserve_output_tokens # None /\ reserve_output_tokens[1] # 0
                    THEN Min2(reserve_output_tokens[1], caps[1].max_output_tokens)
                    ELSE 0)
          ELSE 100000

\* Tuple order on the sort key (hard_required, priority): a sorts strictly
\* ahead of b under reverse=True
KeyGreaterPriorityOnly(a, b) == a.priority > b.priority

KeyGreater(a, b) ==
    \/ a.hard_required /\ ~b.hard_required
    \/ a.hard_required = b.hard_required /\ a.priority > b.priority

InsertAtEnd(sorted, p) == Append(sorted, p)

\* Insert p behind every element whose key is >= its own
InsertByKey(sorted, p) ==
    LET ahead == {i \in 1..Len(sorted) : KeyGreater(p, sorted[i])}
        pos == IF ahead = {} THEN Len(sorted) + 1
               ELSE CHOOSE i \in ahead : \A j \in ahead : i <= j
    IN  SubSeq(sorted, 1, pos - 1) \o <<p>> \o SubSeq(sorted, pos, Len(sorted))

RECURSIVE SortInto(_, _)
SortInto(sorted, rest) ==
    IF rest = <<>> THEN sorted
    ELSE SortInto(InsertByKey(sorted, Head(rest)), Tail(rest))

\* sorted(parts, key=lambda p: (p.hard_required, p.priority), reverse=True):
\* descending by key, equal keys in input order (the sort is stable)
SortedParts(parts) == SortInto(<<>>, parts)

\* "\n\n".join(contents)
RECURSIVE JoinBlankLine(_)
JoinBlankLine(contents) ==
    IF contents = <<>> THEN <<>>
    ELSE IF Len(contents) = 1 THEN contents[1]
    ELSE contents[1] \o Text("\n\n", 2) \o JoinBlankLine(Tail(contents))

\* A target of the whole remaining budget instead of half of it
SummaryTargetWhole(remaining_tokens) == Min2(remaining_tokens, 500)
\* target_tokens = min(int(remaining_tokens * 0.5), 500)
SummaryTarget(remaining_tokens) == Min2(IntTrunc(remaining_tokens, 2), 500)

\* What a summarizer call can do: raise, or return a text of some length
\* (empty, exactly the target, the largest that fits, one token too many).
SummarizerOutcomes(target_tokens, remaining_tokens) ==
    {[raises |-> TRUE, len |-> 0]}
    \cup {[raises |-> FALSE, len |-> n] :
            n \in {4 * target_tokens, 4 * remaining_tokens + 3, 4 * (remaining_tokens + 1)}}

Idle == [op |-> "none"]

NoRet == [op |-> "none"]

InBuild == pc = "build_context"

BuildMore == InBuild /\ frame.i <= Len(frame.sorted_parts)

CurPart == frame.sorted_parts[frame.i]

Fits == frame.total_tokens + token_count(CurPart) <= frame.max_tokens

HasSummarizer == CurPart.summarizer \/ default_summarizer

RemainingTokens == frame.max_tokens - frame.total_tokens

\* lines 115-139: ceiling, sort, empty accumulators
BuildContextCallFor(models, lists) ==
    /\ pc = "idle"
    /\ \E model \in models, parts \in lists, tools \in BuildToolSettings,
          json_mode \in BOOLEAN, reserve \in ReserveChoices :
         frame' = [op |-> "build_context", model |-> model, parts |-> parts,
                   tools_enabled |-> tools[1], tool_count |-> tools[2],
                   json_mode |-> json_mode, reserve_output_tokens |-> reserve,
                   max_tokens |-> BuildMaxTokens(model, tools[1], tools[2],
                                                 json_mode, reserve),
                   sorted_parts |-> SortedParts(parts), i |-> 1,
                   included_parts |-> <<>>, summarized_parts |-> <<>>,
                   dropped_parts |-> <<>>, total_tokens |-> 0,
                   summarizer_calls |-> <<>>]
    /\ pc' = "build_context"
    /\ ret' = NoRet
    /\ UNCHANGED <<default_summarizer, handoff_state, policy_state, selector_state>>

BuildContextCall == BuildContextCallFor(BudgetModels, PartLists)

\* lines 145-148: the part fits as it is
BuildContextInclude ==
    /\ BuildMore /\ Fits
    /\ frame' = [frame EXCEPT !.included_parts = Append(@, CurPart),
                              !.total_tokens = @ + token_count(CurPart),
                              !.i = @ + 1]
    /\ UNCHANGED <<pc, ret, default_summarizer, handoff_state, policy_state, selector_state>>

\* summarizer(part.content, target_tokens) of line 164 as the call it is: the
\* part, the callable chosen by line 153 and the target, with what came back
\* (None when it raised)
SummarizerCall(part, target_tokens, out) ==
    [part |-> part.id,
     summarizer |-> IF part.summarizer THEN "part" ELSE "default",
     target_tokens |-> target_tokens,
     returned |-> IF out.raises THEN None ELSE Some(out.len)]
\* lines 151-183: a hard-required part that does not fit is condensed once;
\* summarizer_calls lists the calls of line 164 made so far in this call
BuildContextSummarize ==
    /\ BuildMore /\ ~Fits /\ CurPart.hard_required /\ HasSummarizer
    /\ SummaryTarget(RemainingTokens) > 50
    /\ \E out \in SummarizerOutcomes(SummaryTarget(RemainingTokens), RemainingTokens) :
         LET summarized_part ==
                 ContextPart(SummarizedId(CurPart.id), CurPart.priority,
                             Text(SummarizedId(CurPart.id), out.len), TRUE, FALSE,
                             Some(CurPart.id))
             call == SummarizerCall(CurPart, SummaryTarget(RemainingTokens), out)
         IN  IF ~out.raises /\ token_count(summarized_part) <= RemainingTokens
               THEN frame' = [frame EXCEPT
                                !.included_parts = Append(@, summarized_part),
                                !.summarized_parts = Append(@, CurPart.id),
                                !.total_tokens = @ + token_count(summarized_part),
                                !.summarizer_calls = Append(@, call),
                                !.i = @ + 1]
               ELSE frame' = [frame EXCEPT !.dropped_parts = Append(@, CurPart.id),
                                           !.summarizer_calls = Append(@, call),
                                           !.i = @ + 1]
    /\ UNCHANGED <<pc, ret, default_summarizer, handoff_state, policy_state, selector_state>>

\* A drop that forgets to report a hard-required part without summarizer
BuildContextDropUnreported ==
    /\ BuildMore /\ ~Fits
    /\ \/ ~CurPart.hard_required
       \/ ~HasSummarizer
       \/ SummaryTarget(RemainingTokens) <= 50
    /\ frame' = [frame EXCEPT !.dropped_parts =
                                 IF CurPart.hard_required /\ ~HasSummarizer
                                   THEN @ ELSE Append(@, CurPart.id),
                              !.i = @ + 1]
    /\ UNCHANGED <<pc, ret, default_summarizer, handoff_state, policy_state, selector_state>>

\* lines 184-194: no room for a summary, no summarizer, or an optional part
BuildContextDrop ==
    /\ BuildMore /\ ~Fits
    /\ \/ ~CurPart.hard_required
       \/ ~HasSummarizer
       \/ SummaryTarget(RemainingTokens) <= 50
    /\ frame' = [frame EXCEPT !.dropped_parts = Append(@, CurPart.id), !.i = @ + 1]
    /\ UNCHANGED <<pc, ret, default_summarizer, handoff_state, policy_state, selector_state>>

\* lines 196-212
BuildContextReturn ==
    /\ InBuild /\ frame.i > Len(frame.sorted_parts)
    /\ ret' = [op |-> "build_context",
               final_text |-> JoinBlankLine([k \in 1..Len(frame.included_parts) |->
                                                frame.included_parts[k].content]),
               parts_included |-> [k \in 1..Len(frame.included_parts) |->
                                      frame.included_parts[k].id],
               parts_summarized |-> frame.summarized_parts,
               parts_dropped |-> frame.dropped_parts,
               tokens_used |-> frame.total_tokens,
               tokens_available |-> frame.max_tokens,
               metadata |-> [model |-> frame.model, tools_enabled |-> frame.tools_enabled,
                             tool_count |-> frame.tool_count, json_mode |-> frame.json_mode]]
    /\ pc' = "returned"
    /\ UNCHANGED <<frame, default_summarizer, handoff_state, policy_state, selector_state>>

\* The caller takes the returned value; the call's locals are gone
Consume ==
    /\ pc = "returned"
    /\ pc' = "idle"
    /\ frame' = Idle
    /\ ret' = NoRet
    /\ UNCHANGED <<default_summarizer, handoff_state, policy_state, selector_state>>

\* TokenBudgeter.__init__: the default summarizer is given or not
InitBudgeter ==
    /\ pc = "idle"
    /\ frame = Idle
    /\ ret = NoRet
    /\ default_summarizer \in BOOLEAN
    /\ InitPolicyState
    /\ InitHandoffState
    /\ NoSelectorState

NextBudgeter ==
    \/ BuildContextCall
    \/ BuildContextInclude
    \/ BuildContextSummarize
    \/ BuildContextDrop
    \/ BuildContextReturn
    \/ Consume

SpecBudgeter == InitBudgeter /\ [][NextBudgeter]_vars

Returned(op) == pc = "returned" /\ ret.op = op

\* ---------------------------------------------------------------------
\* Capability registry: the three public lookups as calls
\* ---------------------------------------------------------------------
GetModelCapabilitiesFor(models) ==
    /\ pc = "idle"
    /\ \E model_id \in models :
         /\ frame' = [op |-> "get_model_capabilities", model_id |-> model_id]
         /\ ret' = [op |-> "get_model_capabilities",
                    result |-> get_model_capabilities(model_id)]
    /\ pc' = "returned"
    /\ UNCHANGED <<default_summarizer, handoff_state, policy_state, selector_state>>

CalculateTokenOverheadFor(models) ==
    /\ pc = "idle"
    /\ \E model_id \in models, tools_enabled \in BOOLEAN, tool_count \in ToolCounts,
          json_mode \in BOOLEAN :
         /\ frame' = [op |-> "calculate_token_overhead", model_id |-> model_id,
                      tools_enabled |-> tools_enabled, tool_count |-> tool_count,
                      json_mode |-> json_mode]
         /\ ret' = [op |-> "calculate_token_overhead",
                    result |-> calculate_token_overhead(model_id, tools_enabled,
                                                        tool_count, json_mode)]
    /\ pc' = "returned"
    /\ UNCHANGED <<default_summarizer, handoff_state, policy_state, selector_state>>

GetEffectiveTokenLimitFor(models) ==
    /\ pc = "idle"
    /\ \E model_id \in models, tools_enabled \in BOOLEAN, tool_count \in ToolCounts,
          json_mode \in BOOLEAN :
         /\ frame' = [op |-> "get_effective_token_limit", model_id |-> model_id,
                      tools_enabled |-> tools_enabled, tool_count |-> tool_count,
                      json_mode |-> json_mode]
         /\ ret' = [op |-> "get_effective_token_limit",
                    result |-> get_effective_token_limit(model_id, tools_enabled,
                                                         tool_count, json_mode)]
    /\ pc' = "returned"
    /\ UNCHANGED <<default_summarizer, handoff_state, policy_state, selector_state>>

GetModelCapabilitiesOp == GetModelCapabilitiesFor(ModelIds)

CalculateTokenOverheadOp == CalculateTokenOverheadFor(ModelIds)

GetEffectiveTokenLimitOp == GetEffectiveTokenLimitFor(ModelIds)

NextRegistry ==
    \/ GetModelCapabilitiesOp
    \/ CalculateTokenOverheadOp
    \/ GetEffectiveTokenLimitOp
    \/ Consume

SpecRegistry == InitBudgeter /\ [][NextRegistry]_vars

\* ---------------------------------------------------------------------
\* TokenBudgeter.allocate_token_budget
\* ---------------------------------------------------------------------
AllocCategories == {"system", "files", "buffer", "unallocated"}

\* Fractions in percent
AllocPercents == {10, 30, 60}

AllocModels == {ID_GPT5, ID_UNKNOWN}

BudgetAllocations == UNION {[cats -> AllocPercents] : cats \in SUBSET AllocCategories}

RECURSIVE SumOver(_, _)
\* sum(f.values()) over the keys in keys
SumOver(f, keys) ==
    IF keys = {} THEN 0
    ELSE LET k == CHOOSE x \in keys : TRUE
         IN  f[k] + SumOver(f, keys \ {k})

SumValues(f) == SumOver(f, DOMAIN f)

\* lines 246-262: floor each share, then credit what is left
CreditRemainder(allocations, total_tokens) ==
    LET allocated == SumValues(allocations)
    IN  IF allocated < total_tokens
          THEN IF "buffer" \in DOMAIN allocations
                 THEN [allocations EXCEPT !["buffer"] = @ + (total_tokens - allocated)]
                 ELSE [c \in (DOMAIN allocations) \cup {"unallocated"} |->
                          IF c = "unallocated" THEN total_tokens - allocated
                          ELSE allocations[c]]
          ELSE allocations

Allocate(budget_allocation, total_tokens) ==
    CreditRemainder([c \in DOMAIN budget_allocation |->
                        IntTrunc(total_tokens * budget_allocation[c], 100)],
                    total_tokens)

AllocateTokenBudget ==
    /\ pc = "idle"
    /\ \E model \in AllocModels, budget_allocation \in BudgetAllocations,
          tools \in ToolSettings :
         /\ frame' = [op |-> "allocate_token_budget", model |-> model,
                      budget_allocation |-> budget_allocation,
                      tools_enabled |-> tools[1], tool_count |-> tools[2]]
         /\ IF SumValues(budget_allocation) > 100
              THEN ret' = [op |-> "allocate_token_budget", raised |-> TRUE,
                           result |-> <<>>]
              ELSE ret' = [op |-> "allocate_token_budget", raised |-> FALSE,
                           result |-> Allocate(budget_allocation,
                                        get_effective_token_limit(model, tools[1],
                                                                  tools[2], FALSE))]
    /\ pc' = "returned"
    /\ UNCHANGED <<default_summarizer, handoff_state, policy_state, selector_state>>

NextAllocate ==
    \/ AllocateTokenBudget
    \/ Consume

SpecAllocate == InitBudgeter /\ [][NextAllocate]_vars

\* ---------------------------------------------------------------------
\* ReasoningPolicy operations
\* ---------------------------------------------------------------------
MaxHistory == 3

MaxAttempt == 3

PolicyModels == {ID_GPT5_NANO, ID_GPT41}

PolicyTasks == {"debugging", "summarization"}

OverrideEfforts == {None, Some("max")}

OverrideTokens == {None, Some(0), Some(30000)}

\* The allocation computed by get_reasoning_params (lines 150-172) from the
\* table entry after the overrides were written into it
ActualTokens(model, config) ==
    LET found == get_max_reasoning_tokens(model)
        max_reasoning == IF found = None \/ found[1] = 0 THEN 128000 ELSE found[1]
    IN  IF config.effort \in DOMAIN EFFORT_PERCENTAGES
          THEN Min2(Min2(IntTrunc(max_reasoning * EFFORT_PERCENTAGES[config.effort], 1000),
                         config.base_tokens),
                    max_reasoning)
          ELSE Min2(config.base_tokens, max_reasoning)

\* lines 159-163: the overrides are assigned to the table's own entry
ApplyOverrides(config, override_effort, override_tokens) ==
    [config EXCEPT
        !.effort = IF override_effort # None THEN override_effort[1] ELSE @,
        !.base_tokens = IF override_tokens # None /\ override_tokens[1] # 0
                          THEN override_tokens[1] ELSE @]

ReasoningParams(task_kind, config, tokens) ==
    [thinking_mode |-> config.effort, reasoning_tokens |-> tokens,
     metadata |-> [task_kind |-> task_kind,
                   escalation_enabled |-> config.escalation_enabled,
                   attempt |-> None, escalated |-> FALSE]]

UsageRecord(model, task_kind, tokens, effort) ==
    [model |-> model, task |-> task_kind, tokens |-> tokens, effort |-> effort]

\* escalate_reasoning: <<new_effort, new_tokens>>
escalate_reasoning_past_max(current_effort, current_tokens) ==
    LET at == {i \in 1..Len(ESCALATION_PATH) : ESCALATION_PATH[i] = current_effort}
        current_index == CHOOSE i \in at : TRUE
    IN  IF at # {} /\ current_index < Len(ESCALATION_PATH)
          THEN <<ESCALATION_PATH[current_index + 1], IntTrunc(current_tokens * 3, 2)>>
          ELSE <<current_effort, IntTrunc(current_tokens * 3, 2)>>

escalate_reasoning(current_effort, current_tokens) ==
    LET at == {i \in 1..Len(ESCALATION_PATH) : ESCALATION_PATH[i] = current_effort}
        current_index == CHOOSE i \in at : TRUE
    IN  IF at # {} /\ current_index < Len(ESCALATION_PATH)
          THEN <<ESCALATION_PATH[current_index + 1], IntTrunc(current_tokens * 3, 2)>>
          ELSE <<current_effort, current_tokens>>

\* The loop of get_adaptive_params (lines 259-266) run n times:
\* <<config.effort, reasoning_tokens>>
RECURSIVE EscalateTimes(_, _, _)
EscalateTimes(n, effort, tokens) ==
    IF n <= 0 THEN <<effort, tokens>>
    ELSE LET step == escalate_reasoning(effort, tokens)
         IN  EscalateTimes(n - 1, step[1], step[2])

\* The caller's note after attempt attempt_number returned tokens: a retry
\* sequence starts at attempt 1 and goes on with the next attempt number on
\* the same model and task
RetryNote(model, task_kind, attempt_number, tokens) ==
    IF \/ attempt_number = 1
       \/ /\ last_adaptive # None
          /\ last_adaptive[1].model = model
          /\ last_adaptive[1].task = task_kind
          /\ last_adaptive[1].attempt + 1 = attempt_number
      THEN Some([model |-> model, task |-> task_kind, attempt |-> attempt_number,
                 tokens |-> tokens])
      ELSE None

GetReasoningParams ==
    /\ pc = "idle"
    /\ Len(usage_history) < MaxHistory
    /\ \E model \in PolicyModels, task_kind \in PolicyTasks,
          override_effort \in OverrideEfforts, override_tokens \in OverrideTokens :
         /\ frame' = [op |-> "get_reasoning_params", model |-> model,
                      task_kind |-> task_kind, override_effort |-> override_effort,
                      override_tokens |-> override_tokens]
         /\ IF ~supports_reasoning(model)
              THEN /\ ret' = [op |-> "get_reasoning_params", result |-> None]
                   /\ UNCHANGED policy_state
              ELSE LET config == ApplyOverrides(DEFAULT_ALLOCATIONS[task_kind],
                                                override_effort, override_tokens)
                       actual_tokens == ActualTokens(model, config)
                   IN  /\ DEFAULT_ALLOCATIONS' =
                              [DEFAULT_ALLOCATIONS EXCEPT ![task_kind] = config]
                       /\ usage_history' = Append(usage_history,
                              UsageRecord(model, task_kind, actual_tokens, config.effort))
                       /\ last_adaptive' = None
                       /\ ret' = [op |-> "get_reasoning_params",
                                  result |-> Some(ReasoningParams(task_kind, config,
                                                                  actual_tokens))]
    /\ pc' = "returned"
    /\ UNCHANGED <<default_summarizer, handoff_state, selector_state>>

GetAdaptiveParams ==
    /\ pc = "idle"
    /\ Len(usage_history) < MaxHistory
    /\ \E model \in PolicyModels, task_kind \in PolicyTasks,
          attempt_number \in 1..MaxAttempt, previous_failure \in BOOLEAN :
         /\ frame' = [op |-> "get_adaptive_params", model |-> model,
                      task_kind |-> task_kind, attempt_number |-> attempt_number,
                      previous_failure |-> previous_failure]
         /\ IF ~supports_reasoning(model)
              THEN /\ ret' = [op |-> "get_adaptive_params", result |-> None]
                   /\ UNCHANGED policy_state
              ELSE LET config == DEFAULT_ALLOCATIONS[task_kind]
                       base_tokens == ActualTokens(model, config)
                       base_params == ReasoningParams(task_kind, config, base_tokens)
                       esc == EscalateTimes(attempt_number - 1, config.effort, base_tokens)
                   IN  /\ usage_history' = Append(usage_history,
                              UsageRecord(model, task_kind, base_tokens, config.effort))
                       /\ last_adaptive' =
                              RetryNote(model, task_kind, attempt_number,
                                        IF attempt_number > 1 \/ previous_failure
                                          THEN esc[2] ELSE base_tokens)
                       /\ IF attempt_number > 1 \/ previous_failure
                            THEN /\ DEFAULT_ALLOCATIONS' =
                                       [DEFAULT_ALLOCATIONS EXCEPT ![task_kind].effort = esc[1]]
                                 /\ ret' = [op |-> "get_adaptive_params",
                                            result |-> Some([base_params EXCEPT
                                               !.reasoning_tokens = esc[2],
                                               !.thinking_mode =
                                                   IF attempt_number > 1 THEN esc[1] ELSE @,
                                               !.metadata.attempt = Some(attempt_number),
                                               !.metadata.escalated = TRUE])]
                            ELSE /\ UNCHANGED DEFAULT_ALLOCATIONS
                                 /\ ret' = [op |-> "get_adaptive_params",
                                            result |-> Some(base_params)]
    /\ pc' = "returned"
    /\ UNCHANGED <<default_summarizer, handoff_state, selector_state>>

\* cost_per_thousand_tokens = 0.01 dollars, in cents
COST_PER_THOUSAND_CENTS == 1

\* estimate_cost, in thousandths of a cent
estimate_cost(tokens) == tokens * COST_PER_THOUSAND_CENTS

\* by_task of get_usage_summary
UsageByTask(history) ==
    LET tasks == {history[i].task : i \in 1..Len(history)}
        of(task) == SelectSeq(history, LAMBDA h : h.task = task)
    IN  [task \in tasks |->
            [tokens |-> SumSeq([i \in 1..Len(of(task)) |-> of(task)[i].tokens]),
             calls |-> Len(of(task))]]

get_usage_summary(history) ==
    IF history = <<>>
      THEN [total_tokens |-> 0, total_cost |-> 0, calls |-> 0]
      ELSE LET total_tokens == SumSeq([i \in 1..Len(history) |-> history[i].tokens])
           IN  [total_tokens |-> total_tokens,
                total_cost |-> estimate_cost(total_tokens),
                calls |-> Len(history),
                by_task |-> UsageByTask(history),
                average_tokens_per_call |-> total_tokens \div Len(history)]

GetUsageSummary ==
    /\ pc = "idle"
    /\ frame' = [op |-> "get_usage_summary"]
    /\ ret' = [op |-> "get_usage_summary", result |-> get_usage_summary(usage_history)]
    /\ pc' = "returned"
    /\ UNCHANGED <<default_summarizer, handoff_state, policy_state, selector_state>>

NextPolicy ==
    \/ GetReasoningParams
    \/ GetAdaptiveParams
    \/ GetUsageSummary
    \/ Consume

SpecPolicy == InitBudgeter /\ [][NextPolicy]_vars

\* ---------------------------------------------------------------------
\* ReasoningPolicy.escalate_reasoning on its own: a caller escalates a
\* starting (effort, tokens) pair and feeds each result back in
\* ---------------------------------------------------------------------
MaxEscalations == 5

EscalateTokens == {0, 1, 3, 5000, 12000, 21333}

\* escalate_reasoning(current_effort, current_tokens), first application
EscalateReasoningCall ==
    /\ pc = "idle"
    /\ \E current_effort \in Efforts, current_tokens \in EscalateTokens :
          /\ frame' = [op |-> "escalate_reasoning",
                       current_effort |-> current_effort,
                       current_tokens |-> current_tokens,
                       start_effort |-> current_effort,
                       start_tokens |-> current_tokens,
                       applications |-> 1]
          /\ ret' = [op |-> "escalate_reasoning",
                     result |-> escalate_reasoning(current_effort, current_tokens)]
    /\ pc' = "returned"
    /\ UNCHANGED <<default_summarizer, handoff_state, policy_state, selector_state>>

EscalateReasoningAgainFromStart ==
    /\ pc = "returned"
    /\ ret.op = "escalate_reasoning"
    /\ frame.applications < MaxEscalations
    /\ frame' = [frame EXCEPT !.applications = @ + 1]
    /\ ret' = [op |-> "escalate_reasoning",
               result |-> escalate_reasoning(frame.current_effort, frame.current_tokens)]
    /\ pc' = "returned"
    /\ UNCHANGED <<default_summarizer, handoff_state, policy_state, selector_state>>

\* The caller passes the pair it got back to the next application
EscalateReasoningAgain ==
    /\ pc = "returned"
    /\ ret.op = "escalate_reasoning"
    /\ frame.applications < MaxEscalations
    /\ frame' = [frame EXCEPT !.current_effort = ret.result[1],
                              !.current_tokens = ret.result[2],
                              !.applications = @ + 1]
    /\ ret' = [op |-> "escalate_reasoning",
               result |-> escalate_reasoning(ret.result[1], ret.result[2])]
    /\ pc' = "returned"
    /\ UNCHANGED <<default_summarizer, handoff_state, policy_state, selector_state>>

NextEscalate ==
    \/ EscalateReasoningCall
    \/ EscalateReasoningAgain
    \/ Consume

SpecEscalate == InitBudgeter /\ [][NextEscalate]_vars

\* ---------------------------------------------------------------------
\* Handoff envelopes (utils/handoff.py)
\* ---------------------------------------------------------------------
EMPTY_STR == <<>>

NEWLINE == Text("\n", 1)

DECIMAL_DIGITS == <<"0", "1", "2", "3", "4", "5", "6", "7", "8", "9">>

\* str(n) of a non-negative integer, as in an f-string
RECURSIVE str(_)
str(n) ==
    IF n < 10 THEN Text(DECIMAL_DIGITS[n + 1], 1)
    ELSE str(n \div 10) \o Text(DECIMAL_DIGITS[(n % 10) + 1], 1)

\* A model identifier as text
ModelText(id) == [i \in 1..Len(id) |-> [src |-> id[i], len |-> 1]]

\* sep.join(items)
RECURSIVE JoinText(_, _)
JoinText(sep, items) ==
    IF items = <<>> THEN EMPTY_STR
    ELSE IF Len(items) = 1 THEN items[1]
    ELSE items[1] \o sep \o JoinText(sep, Tail(items))

\* text.split('\n'): the lines between the newline characters
RECURSIVE SplitLines(_)
SplitLines(text) ==
    LET breaks == {i \in 1..Len(text) : text[i] = NEWLINE[1]}
    IN  IF breaks = {} THEN <<text>>
        ELSE LET b == CHOOSE i \in breaks : \A j \in breaks : i <= j
             IN  <<SubSeq(text, 1, b - 1)>> \o SplitLines(SubSeq(text, b + 1, Len(text)))

\* line.startswith('#')
StartsWithHash(line) ==
    LET filled == {i \in 1..Len(line) : line[i].len > 0}
    IN  filled # {} /\ line[CHOOSE i \in filled : \A j \in filled : i <= j].src = "#"

\* text[-n:]
RECURSIVE SuffixText(_, _)
SuffixText(text, n) ==
    IF text = <<>> \/ n <= 0 THEN EMPTY_STR
    ELSE LET last == text[Len(text)]
         IN  IF last.len >= n THEN <<[last EXCEPT !.len = n]>>
             ELSE SuffixText(SubSeq(text, 1, Len(text) - 1), n - last.len) \o <<last>>

\* items[:n]
Take(items, n) == SubSeq(items, 1, Min2(n, Len(items)))

CRITICAL == Text("critical", 8)

IMPORTANT == Text("important", 9)

RELATED == Text("related", 7)

\* FileReference objects; ranges: None or Some(list of texts)
FileReference(path, hash, ranges, relevance) ==
    [class |-> "FileReference", path |-> path, hash |-> hash,
     ranges |-> ranges, relevance |-> relevance]

\* FileReference.to_dict: the fields whose value is not None
FileReference_to_dict(ref) ==
    LET keys == {"path", "hash", "relevance"}
                    \cup (IF ref.ranges # None THEN {"ranges"} ELSE {})
    IN  [k \in keys |-> IF k = "ranges" THEN ref.ranges[1] ELSE ref[k]]

\* FileReference(**ref)
FileReference_from_dict(ref) ==
    FileReference(ref.path, ref.hash,
                  IF "ranges" \in DOMAIN ref THEN Some(ref.ranges) ELSE None,
                  IF "relevance" \in DOMAIN ref THEN ref.relevance ELSE RELATED)

REQUIRED_FIELDS == {"stage_id", "source_model", "target_model", "task_summary", "task_kind"}

\* The defaulted fields of HandoffEnvelope; now: datetime.utcnow().isoformat()
ENVELOPE_DEFAULTS(now) ==
    [timestamp |-> now,
     key_constraints |-> <<>>, requirements |-> <<>>,
     findings |-> <<>>, working_hypotheses |-> <<>>, decisions_made |-> <<>>,
     unresolved_questions |-> <<>>, action_items |-> <<>>,
     next_instructions |-> Text("Continue analysis based on findings", 35),
     suggested_approach |-> None,
     file_refs |-> <<>>,
     memory_state_id |-> None, conversation_id |-> None,
     context_start_text |-> None, context_end_text |-> None,
     metadata |-> <<>>]

\* HandoffEnvelope(stage_id=..., ..., **kwargs)
HandoffEnvelope(stage_id, source_model, target_model, task_summary, task_kind, kwargs, now) ==
    LET defaults == ENVELOPE_DEFAULTS(now)
    IN  [class |-> "HandoffEnvelope",
         stage_id |-> stage_id, source_model |-> source_model,
         target_model |-> target_model, task_summary |-> task_summary,
         task_kind |-> task_kind]
        @@ [f \in DOMAIN defaults |->
               IF f \in DOMAIN kwargs THEN kwargs[f] ELSE defaults[f]]

\* A titled bullet list of to_context, omitted when the list is empty
BulletSection(title, items) ==
    IF items = <<>> THEN <<>>
    ELSE <<title>> \o [i \in 1..Len(items) |-> Text("- ", 2) \o items[i]]

\* One line of "### Relevant Files"
FileLine(ref) ==
    Text("- [", 3) \o ref.relevance \o Text("] ", 2) \o ref.path
        \o (IF ref.ranges # None /\ ref.ranges[1] # <<>>
              THEN Text(" (lines ", 8) \o JoinText(Text(", ", 2), ref.ranges[1])
                       \o Text(")", 1)
              ELSE EMPTY_STR)

\* str is truthy
HasText(opt) == opt # None /\ StrLen(opt[1]) > 0

\* HandoffEnvelope.to_context
to_context(e, include_files) ==
    LET header ==
            <<Text("## Handoff from ", 16) \o ModelText(e.source_model)
                  \o Text(" to ", 4) \o ModelText(e.target_model),
              Text("Stage: ", 7) \o e.stage_id
                  \o Text(" | Task Type: ", 14) \o e.task_kind,
              Text("Timestamp: ", 11) \o e.timestamp \o NEWLINE,
              Text("### Task Summary", 16),
              e.task_summary>>
        findings ==
            IF e.findings = <<>> THEN <<>>
            ELSE BulletSection(Text("\n### Key Findings", 17), Take(e.findings, 10))
                 \o (IF Len(e.findings) > 10
                       THEN <<Text("... and ", 8) \o str(Len(e.findings) - 10)
                                  \o Text(" more findings", 14)>>
                       ELSE <<>>)
        next_steps ==
            <<Text("\n### Next Steps", 15), e.next_instructions>>
            \o (IF HasText(e.suggested_approach)
                  THEN <<Text("\nSuggested Approach: ", 21) \o e.suggested_approach[1]>>
                  ELSE <<>>)
        files ==
            IF include_files /\ e.file_refs # <<>>
              THEN <<Text("\n### Relevant Files", 19)>>
                   \o [i \in 1..Min2(20, Len(e.file_refs)) |-> FileLine(e.file_refs[i])]
                   \o (IF Len(e.file_refs) > 20
                         THEN <<Text("... and ", 8) \o str(Len(e.file_refs) - 20)
                                    \o Text(" more files", 11)>>
                         ELSE <<>>)
              ELSE <<>>
        references ==
            IF HasText(e.memory_state_id) \/ HasText(e.conversation_id)
              THEN <<Text("\n### Context References", 23)>>
                   \o (IF HasText(e.memory_state_id)
                         THEN <<Text("Memory State: ", 14) \o e.memory_state_id[1]>>
                         ELSE <<>>)
                   \o (IF HasText(e.conversation_id)
                         THEN <<Text("Conversation: ", 14) \o e.conversation_id[1]>>
                         ELSE <<>>)
              ELSE <<>>
        sections ==
            header
            \o BulletSection(Text("\n### Key Constraints", 20), e.key_constraints)
            \o BulletSection(Text("\n### Requirements", 17), e.requirements)
            \o findings
            \o BulletSection(Text("\n### Decisions Made", 19), e.decisions_made)
            \o BulletSection(Text("\n### Working Hypotheses", 23), e.working_hypotheses)
            \o BulletSection(Text("\n### Unresolved Questions", 25), e.unresolved_questions)
            \o BulletSection(Text("\n### Action Items", 17), e.action_items)
            \o next_steps
            \o files
            \o references
    IN  JoinText(NEWLINE, sections)

MAX_CONTEXT_CHARS == 10000

\* HandoffEnvelope.validate: the list of error texts
validate(e) ==
    LET missing(empty, name, n) ==
            IF empty THEN <<Text("Missing ", 8) \o Text(name, n)>> ELSE <<>>
        context_size == StrLen(to_context(e, TRUE))
    IN  missing(StrLen(e.stage_id) = 0, "stage_id", 8)
        \o missing(Len(e.source_model) = 0, "source_model", 12)
        \o missing(Len(e.target_model) = 0, "target_model", 12)
        \o missing(StrLen(e.task_summary) = 0, "task_summary", 12)
        \o missing(StrLen(e.task_kind) = 0, "task_kind", 9)
        \o (IF context_size > MAX_CONTEXT_CHARS
              THEN <<Text("Envelope context too large (", 28) \o str(context_size)
                         \o Text(" chars)", 7)>>
              ELSE <<>>)

\* HandoffEnvelope.to_json: dataclasses.asdict with the file references
\* replaced by their to_dict form, written as a JSON document
to_json(e) ==
    LET data == [f \in DOMAIN e \ {"class"} |->
                    IF f = "file_refs"
                      THEN [i \in 1..Len(e.file_refs) |->
                               FileReference_to_dict(e.file_refs[i])]
                      ELSE e[f]]
    IN  [json |-> data]

from_json_raw(json_str) ==
    [class |-> "HandoffEnvelope"] @@ json_str.json

\* HandoffEnvelope.from_json: json.loads, file_refs rebuilt, cls(**data)
from_json(json_str) ==
    LET data == json_str.json
        refs == IF "file_refs" \in DOMAIN data
                  THEN [i \in 1..Len(data.file_refs) |->
                           FileReference_from_dict(data.file_refs[i])]
                  ELSE <<>>
    IN  [class |-> "HandoffEnvelope"]
        @@ [f \in DOMAIN data |-> IF f = "file_refs" THEN refs ELSE data[f]]

\* ---------------------------------------------------------------------
\* HandoffManager
\* ---------------------------------------------------------------------
MaxEnvelopes == 2

MaxFindings == 21

\* datetime.utcnow().isoformat() at the time of the call
UtcNow == <<[src |-> "utcnow", len |-> 26, tick |-> Len(handoff_history)]>>

\* The record create_handoff appends to handoff_history
HistoryRecord(envelope, source_model, target_model, stage_id) ==
    [timestamp |-> envelope.timestamp, source |-> source_model,
     target |-> target_model, stage |-> stage_id]

optimize_for_target_flat(envelope, target_model) ==
    LET caps == get_model_capabilities(target_model)
    IN  IF caps = None THEN envelope
        ELSE [envelope EXCEPT
                !.findings = Take(@, 5),
                !.file_refs = SelectSeq(@, LAMBDA ref : ref.relevance = CRITICAL),
                !.key_constraints = Take(@, 3),
                !.requirements = Take(@, 3)]

\* HandoffManager.optimize_for_target: the fields of the envelope object
\* after the call (the object passed in is the one assigned to and returned)
optimize_for_target(envelope, target_model) ==
    LET caps == get_model_capabilities(target_model)
    IN  IF caps = None THEN envelope
        ELSE IF caps[1].max_input_tokens >= 900000 THEN envelope
        ELSE IF caps[1].max_input_tokens >= 400000
          THEN [envelope EXCEPT
                  !.findings = IF Len(@) > 20 THEN Take(@, 20) ELSE @,
                  !.metadata = IF Len(envelope.findings) > 20
                                 THEN ("findings_truncated" :> TRUE) @@ @
                                 ELSE @,
                  !.file_refs = SelectSeq(@, LAMBDA ref :
                                    ref.relevance \in {CRITICAL, IMPORTANT})]
          ELSE [envelope EXCEPT
                  !.findings = Take(@, 5),
                  !.file_refs = SelectSeq(@, LAMBDA ref : ref.relevance = CRITICAL),
                  !.key_constraints = Take(@, 3),
                  !.requirements = Take(@, 3)]

\* create_continuation_handoff: the keyword arguments it passes on
ContinuationArgs(model, stage_id, partial_output, continuation_number) ==
    LET lines == SplitLines(partial_output)
        heads == {i \in 1..Len(lines) : StartsWithHash(lines[i])}
        last_complete_section ==
            IF heads = {} THEN EMPTY_STR
            ELSE LET i == CHOOSE h \in heads : \A j \in heads : j <= h
                 IN  JoinText(NEWLINE, SubSeq(lines, i, Min2(i + 9, Len(lines))))
    IN  [source_model |-> model,
         target_model |-> model,
         stage_id |-> stage_id \o Text("_cont_", 6) \o str(continuation_number),
         task_kind |-> Text("continuation", 12),
         task_summary |-> Text("Continue output from part ", 26) \o str(continuation_number),
         kwargs |->
            [next_instructions |->
                 Text("CONTINUE from where you left off. Last section was:\n", 52)
                     \o last_complete_section,
             metadata |->
                 [continuation_number |-> continuation_number,
                  partial_output_length |-> StrLen(partial_output),
                  output_truncated_at |->
                      IF StrLen(partial_output) > 200
                        THEN SuffixText(partial_output, 200)
                        ELSE partial_output]]]

\* Inputs -----------------------------------------------------------------
Items(kind, n) == [i \in 1..n |-> Text(kind, 12) \o str(i)]

SampleFileRefs ==
    <<FileReference(Text("auth.py", 7), Text("abc123", 6),
                    Some(<<Text("10-20", 5), Text("40-45", 5)>>), CRITICAL),
      FileReference(Text("README.md", 9), Text("def456", 6), None, RELATED),
      FileReference(Text("config.py", 9), Text("0a1b2c", 6), Some(<<>>), IMPORTANT),
      FileReference(Text("login.py", 8), Text("77aa11", 6), None, CRITICAL)>>

\* **kwargs of create_handoff: none; every list longer than the caps; short
\* lists with instructions long enough for the size warning
NoKwargs == <<>>

RichKwargs ==
    [findings |-> Items("finding", MaxFindings),
     key_constraints |-> Items("constraint", 4),
     requirements |-> Items("requirement", 4),
     file_refs |-> SampleFileRefs,
     suggested_approach |-> Some(Text("bisect the login flow", 21)),
     conversation_id |-> Some(Text("conv-1", 6)),
     metadata |-> [findings_truncated |-> FALSE, round |-> 1]]

LongKwargs ==
    [findings |-> Items("finding", 3),
     key_constraints |-> Items("constraint", 2),
     file_refs |-> SubSeq(SampleFileRefs, 1, 1),
     next_instructions |-> Text("long instructions", MAX_CONTEXT_CHARS)]

\* <<stage_id, source_model, target_model, task_summary, task_kind>>
FilledRequired ==
    <<Text("analysis", 8), ID_GPT5, ID_GPT41, Text("Find the login bug", 18),
      Text("debugging", 9)>>

PartlyEmptyRequired == <<EMPTY_STR, ID_GPT5, ID_O3, EMPTY_STR, EMPTY_STR>>

\* <<required, kwargs>> of the create_handoff calls
HandoffCalls ==
    {<<FilledRequired, NoKwargs>>, <<FilledRequired, RichKwargs>>,
     <<FilledRequired, LongKwargs>>, <<PartlyEmptyRequired, LongKwargs>>}

Heading(title) == Text("#", 1) \o Text(title, 14)

\* partial_output of create_continuation_handoff
PartialOutputs ==
    {EMPTY_STR,
     Text("no heading in this output", 25) \o NEWLINE \o Text("second line", 11),
     JoinText(NEWLINE,
              <<Heading("first")>> \o Items("para", 3)
              \o <<Heading("second")>> \o Items("body", 11))}

ContinuationModels == {ID_GPT41, <<>>}

ContinuationNumbers == {10}

OptimizeTargets == {ID_GPT41, ID_GPT5, ID_O3, ID_UNKNOWN}

\* Actions ----------------------------------------------------------------
CreateHandoffWithValidOnly(op, source_model, target_model, stage_id, task_kind, task_summary, kwargs) ==
    LET envelope == HandoffEnvelope(stage_id, source_model, target_model,
                                    task_summary, task_kind, kwargs, UtcNow)
        errors == validate(envelope)
    IN  /\ envelopes' = Append(envelopes, envelope)
        /\ handoff_history' =
               IF errors = <<>>
                 THEN Append(handoff_history,
                             HistoryRecord(envelope, source_model, target_model, stage_id))
                 ELSE handoff_history
        /\ frame' = [op |-> op, source_model |-> source_model,
                     target_model |-> target_model, stage_id |-> stage_id,
                     task_kind |-> task_kind, task_summary |-> task_summary,
                     kwargs |-> kwargs, errors |-> errors]
        /\ ret' = [op |-> op, result |-> Len(envelopes) + 1]

\* create_handoff: build, validate (warnings only), record, return the object
CreateHandoffWith(op, source_model, target_model, stage_id, task_kind, task_summary, kwargs) ==
    LET envelope == HandoffEnvelope(stage_id, source_model, target_model,
                                    task_summary, task_kind, kwargs, UtcNow)
        errors == validate(envelope)
    IN  /\ envelopes' = Append(envelopes, envelope)
        /\ handoff_history' = Append(handoff_history,
               HistoryRecord(envelope, source_model, target_model, stage_id))
        /\ frame' = [op |-> op, source_model |-> source_model,
                     target_model |-> target_model, stage_id |-> stage_id,
                     task_kind |-> task_kind, task_summary |-> task_summary,
                     kwargs |-> kwargs, errors |-> errors]
        /\ ret' = [op |-> op, result |-> Len(envelopes) + 1]

CreateHandoff ==
    /\ pc = "idle"
    /\ Len(envelopes) < MaxEnvelopes
    /\ \E call \in HandoffCalls :
          LET required == call[1]
              kwargs == call[2]
          IN  CreateHandoffWith("create_handoff", required[2], required[3], required[1],
                                required[5], required[4], kwargs)
    /\ pc' = "returned"
    /\ UNCHANGED <<default_summarizer, policy_state, selector_state>>

CreateContinuationHandoff ==
    /\ pc = "idle"
    /\ Len(envelopes) < MaxEnvelopes
    /\ \E model \in ContinuationModels, partial_output \in PartialOutputs,
          continuation_number \in ContinuationNumbers :
          LET args == ContinuationArgs(model, Text("analysis", 8), partial_output,
                                       continuation_number)
          IN  CreateHandoffWith("create_continuation_handoff",
                                args.source_model, args.target_model, args.stage_id,
                                args.task_kind, args.task_summary, args.kwargs)
    /\ pc' = "returned"
    /\ UNCHANGED <<default_summarizer, policy_state, selector_state>>

\* optimize_for_target(envelope, target_model) on an envelope object the
\* caller holds: the object is reassigned in place and returned
OptimizeForTarget ==
    /\ pc = "idle"
    /\ \E envelope \in 1..Len(envelopes), target_model \in OptimizeTargets :
          /\ envelopes' = [envelopes EXCEPT
                              ![envelope] = optimize_for_target(@, target_model)]
          /\ frame' = [op |-> "optimize_for_target", envelope |-> envelope,
                       target_model |-> target_model]
          /\ ret' = [op |-> "optimize_for_target", result |-> envelope]
    /\ pc' = "returned"
    /\ UNCHANGED <<default_summarizer, policy_state, handoff_history, selector_state>>

\* envelope.validate()
ValidateEnvelope ==
    /\ pc = "idle"
    /\ \E envelope \in 1..Len(envelopes) :
          /\ frame' = [op |-> "validate", envelope |-> envelope]
          /\ ret' = [op |-> "validate", result |-> validate(envelopes[envelope])]
    /\ pc' = "returned"
    /\ UNCHANGED <<default_summarizer, policy_state, handoff_state, selector_state>>

\* HandoffEnvelope.from_json(envelope.to_json())
JsonRoundTrip ==
    /\ pc = "idle"
    /\ \E envelope \in 1..Len(envelopes) :
          /\ frame' = [op |-> "from_json", envelope |-> envelope,
                       json_str |-> to_json(envelopes[envelope])]
          /\ ret' = [op |-> "from_json",
                     result |-> from_json(to_json(envelopes[envelope]))]
    /\ pc' = "returned"
    /\ UNCHANGED <<default_summarizer, policy_state, handoff_state, selector_state>>

NextHandoff ==
    \/ CreateHandoff
    \/ CreateContinuationHandoff
    \/ OptimizeForTarget
    \/ ValidateEnvelope
    \/ JsonRoundTrip
    \/ Consume

SpecHandoff == InitBudgeter /\ [][NextHandoff]_vars

\* ---------------------------------------------------------------------
\* FileSelector.select_files
\* ---------------------------------------------------------------------
FileLists ==
    {<<PATH_AUTH, PATH_README, PATH_CONFIG>>,
     <<PATH_CONFIG, PATH_README>>,
     <<>>}

SelectModels == {ID_GPT5, ID_GPT41, ID_O3, ID_UNKNOWN}

TaskChoices == {None, Some(<<"debug", "project", "auth", "error">>)}

\* <<mentioned_files, error_files>> as sets
CriticalChoices == {<<{}, {}>>, <<{PATH_README}, {}>>, <<{}, {PATH_CONFIG}>>}

\* budget_percentage in whole percents
BudgetPercents == {30, 60}

StrategyArgs == {"auto", "all", "priority", "summary", "fastest"}

\* lines 134-141
FileBudget(model, budget_percentage) ==
    LET caps == get_model_capabilities(model)
    IN  IF caps # None
          THEN LET product == MarginProduct(caps[1])
                   available_tokens == IF product.short THEN product.whole - 1
                                       ELSE product.whole
               IN  (available_tokens * budget_percentage) \div 100
          ELSE 60000

\* lines 144-150
ResolveStrategy(model, strategy) ==
    LET caps == get_model_capabilities(model)
    IN  IF strategy # "auto" THEN strategy
        ELSE IF caps # None /\ caps[1].max_input_tokens >= 900000 THEN "all"
        ELSE IF caps # None /\ caps[1].max_input_tokens >= 400000 THEN "priority"
        ELSE "summary"

\* lines 159-164: the loop the strategy string dispatches to
DispatchPc(strategy) ==
    IF strategy = "all" THEN "select_all"
    ELSE IF strategy = "priority" THEN "select_priority_1"
    ELSE "select_summary"

OVERSIZE_SUMMARY_CHARS == 4000000

\* What a summarizer callback can do when asked for target tokens: raise,
\* or return a text that is empty, of the asked size, or far larger
SelectorSummarizerOutcomes(target) ==
    {[raises |-> TRUE, len |-> 0]}
    \cup {[raises |-> FALSE, len |-> n] : n \in {0, 4 * target, OVERSIZE_SUMMARY_CHARS}}

CacheKey(info, target_tokens) == <<info.file_hash, target_tokens>>

\* A lookup that never finds the pair in the cache
get_or_create_summary_uncached(info, target_tokens, out) ==
    LET key == CacheKey(info, target_tokens)
    IN  IF selector.default_summarizer /\ ~out.raises
          THEN LET text == FileContent(<<"summary", info.content.text, target_tokens>>,
                                       out.len, {})
               IN  [summary |-> Some(text),
                    cache |-> IF selector.cache_summaries
                                THEN [k \in (DOMAIN summary_cache) \cup {key} |->
                                         IF k = key THEN text ELSE summary_cache[k]]
                                ELSE summary_cache,
                    invoked |-> "returned"]
        ELSE [summary |-> None, cache |-> summary_cache,
              invoked |-> IF selector.default_summarizer THEN "raised" ELSE "no"]

\* _get_or_create_summary: the returned summary (None or Some), the summary
\* cache afterwards, and whether the summarizer was invoked ("no", or how the
\* invocation ended), for the outcome `out` of a summarizer call
get_or_create_summary(info, target_tokens, out) ==
    LET key == CacheKey(info, target_tokens)
    IN  IF summary_cache # <<>> /\ key \in DOMAIN summary_cache
          THEN [summary |-> Some(summary_cache[key]), cache |-> summary_cache,
                invoked |-> "no"]
        ELSE IF selector.default_summarizer /\ ~out.raises
          THEN LET text == FileContent(<<"summary", info.content.text, target_tokens>>,
                                       out.len, {})
               IN  [summary |-> Some(text),
                    cache |-> IF selector.cache_summaries
                                THEN [k \in (DOMAIN summary_cache) \cup {key} |->
                                         IF k = key THEN text ELSE summary_cache[k]]
                                ELSE summary_cache,
                    invoked |-> "returned"]
        ELSE [summary |-> None, cache |-> summary_cache,
              invoked |-> IF selector.default_summarizer THEN "raised" ELSE "no"]

\* `if summary:` - neither None nor the empty string
Truthy(summary) == summary # None /\ StrLen(summary[1].text) > 0

\* lines 344-346 / 366-368 / 406-408
Summarized(info, summary, model) ==
    [info EXCEPT !.content = summary, !.is_summarized = TRUE,
                 !.token_count = estimate_tokens_for_model(model, summary.text)]

InSelect(at) == pc = at /\ frame.op = "select_files"

CurInfo == frame.file_infos[frame.i]

\* selected.append(info); total_tokens += info.token_count
Admit(f, info) ==
    [f EXCEPT !.selected = Append(@, info),
              !.total_tokens = @ + info.token_count,
              !.i = @ + 1]

\* The summary branch shared by the three loops: ask for a summary of the
\* current file of target tokens, admit it when it is truthy
AdmitSummary(target) ==
    \E out \in SelectorSummarizerOutcomes(target) :
        LET r == get_or_create_summary(CurInfo, target, out)
        IN  /\ summary_cache' = r.cache
            /\ calls_made' =
                  IF r.invoked = "no" THEN calls_made
                  ELSE [calls_made EXCEPT
                           ![r.invoked] = Bump(@, CacheKey(CurInfo, target))]
            /\ frame' = IF Truthy(r.summary)
                          THEN LET info == Summarized(CurInfo, r.summary[1], frame.model)
                               IN  [Admit(frame, info) EXCEPT
                                       !.file_infos[frame.i] = info,
                                       !.files_summarized = @ + 1]
                          ELSE [frame EXCEPT !.i = @ + 1]

Skip ==
    /\ frame' = [frame EXCEPT !.i = @ + 1]
    /\ UNCHANGED <<summary_cache, calls_made>>

SelectFilesCallFor(models, strategies) ==
    /\ pc = "idle"
    /\ select_calls < MaxSelectCalls
    /\ \E files \in FileLists, model \in models, task_context \in TaskChoices,
          critical \in CriticalChoices,
          budget_percentage \in BudgetPercents, strategy \in strategies :
         LET resolved == ResolveStrategy(model, strategy)
             file_infos == LoadAndScore(files, <<>>, file_cache, model, task_context,
                                        critical[1], critical[2])
             files_to_include == Min2(Len(file_infos), 20)
         IN  /\ frame' = [op |-> "select_files", model |-> model, files |-> files,
                          strategy_arg |-> strategy, strategy |-> resolved,
                          budget_percentage |-> budget_percentage,
                          file_budget |-> FileBudget(model, budget_percentage),
                          file_infos |-> file_infos, i |-> 1,
                          selected |-> <<>>, total_tokens |-> 0,
                          files_summarized |-> 0,
                          files_to_include |-> files_to_include,
                          tokens_per_file |->
                              FileBudget(model, budget_percentage)
                                  \div (IF files_to_include > 1 THEN files_to_include ELSE 1)]
             /\ pc' = DispatchPc(resolved)
             /\ file_cache' = CacheAfterLoad(files, file_cache)
             /\ calls_made' = [calls_made EXCEPT
                                 !.reads = ReadsAfterLoad(files, file_cache, @)]
    /\ select_calls' = select_calls + 1
    /\ ret' = NoRet
    /\ UNCHANGED <<default_summarizer, handoff_state, policy_state, selector, disk, summary_cache>>

SelectFilesCall == SelectFilesCallFor(SelectModels, StrategyArgs)

\* _select_all_within_budget, one iteration of the loop (lines 306-309)
SelectAllStep ==
    /\ InSelect("select_all") /\ frame.i <= Len(frame.file_infos)
    /\ frame' = IF frame.total_tokens + CurInfo.token_count <= frame.file_budget
                  THEN Admit(frame, CurInfo)
                  ELSE [frame EXCEPT !.i = @ + 1]
    /\ UNCHANGED <<pc, ret, default_summarizer, handoff_state, policy_state, selector, disk,
                   file_cache, summary_cache, select_calls, calls_made>>

\* _select_by_priority, first pass: one critical file (lines 331-349)
SelectPriorityCritical ==
    /\ InSelect("select_priority_1") /\ frame.i <= Len(frame.file_infos)
    /\ CurInfo.relevance_level = "CRITICAL"
    /\ IF frame.total_tokens + CurInfo.token_count <= frame.file_budget
         THEN frame' = Admit(frame, CurInfo) /\ UNCHANGED <<summary_cache, calls_made>>
       ELSE IF selector.default_summarizer
               /\ Min2(1000, frame.file_budget - frame.total_tokens) > 100
         THEN AdmitSummary(Min2(1000, frame.file_budget - frame.total_tokens))
       ELSE Skip
    /\ UNCHANGED <<pc, ret, default_summarizer, handoff_state, policy_state, selector, disk,
                   file_cache, select_calls>>

\* The first pass ends at the first non-critical file (line 333) or at the
\* end of the list; the second pass starts over
SelectPriorityBreak ==
    /\ InSelect("select_priority_1")
    /\ \/ frame.i > Len(frame.file_infos)
       \/ /\ frame.i <= Len(frame.file_infos)
          /\ CurInfo.relevance_level # "CRITICAL"
    /\ pc' = "select_priority_2"
    /\ frame' = [frame EXCEPT !.i = 1]
    /\ UNCHANGED <<ret, default_summarizer, handoff_state, policy_state, selector_state>>

\* _select_by_priority, second pass: one file (lines 352-371)
SelectPriorityOther ==
    /\ InSelect("select_priority_2") /\ frame.i <= Len(frame.file_infos)
    /\ IF CurInfo.relevance_level = "CRITICAL"
         THEN Skip
       ELSE IF frame.total_tokens + CurInfo.token_count <= frame.file_budget
         THEN frame' = Admit(frame, CurInfo) /\ UNCHANGED <<summary_cache, calls_made>>
       ELSE IF CurInfo.relevance_level = "HIGH" /\ selector.default_summarizer
               /\ frame.file_budget - frame.total_tokens > 500
         THEN AdmitSummary(Min2(500, frame.file_budget - frame.total_tokens))
       ELSE Skip
    /\ UNCHANGED <<pc, ret, default_summarizer, handoff_state, policy_state, selector, disk,
                   file_cache, select_calls>>

\* A summary loop that, lacking a summarizer, takes the file as it is
SelectSummaryStepKeepsOversize ==
    /\ InSelect("select_summary") /\ frame.i <= frame.files_to_include
    /\ IF CurInfo.token_count <= frame.tokens_per_file
         THEN frame' = Admit(frame, CurInfo) /\ UNCHANGED <<summary_cache, calls_made>>
       ELSE IF selector.default_summarizer
         THEN AdmitSummary(Min2(frame.tokens_per_file, 500))
       ELSE frame' = Admit(frame, CurInfo) /\ UNCHANGED <<summary_cache, calls_made>>
    /\ UNCHANGED <<pc, ret, default_summarizer, handoff_state, policy_state, selector, disk,
                   file_cache, select_calls>>

\* _select_with_summarization, one iteration of the loop (lines 396-411)
SelectSummaryStep ==
    /\ InSelect("select_summary") /\ frame.i <= frame.files_to_include
    /\ IF CurInfo.token_count <= frame.tokens_per_file
         THEN frame' = Admit(frame, CurInfo) /\ UNCHANGED <<summary_cache, calls_made>>
       ELSE IF selector.default_summarizer
         THEN AdmitSummary(Min2(frame.tokens_per_file, 500))
       ELSE Skip
    /\ UNCHANGED <<pc, ret, default_summarizer, handoff_state, policy_state, selector, disk,
                   file_cache, select_calls>>

LoopDone ==
    \/ InSelect("select_all") /\ frame.i > Len(frame.file_infos)
    \/ InSelect("select_priority_2") /\ frame.i > Len(frame.file_infos)
    \/ InSelect("select_summary") /\ frame.i > frame.files_to_include

\* The fields of the dataclass FileSelectionResult that have no default
FILE_SELECTION_RESULT_REQUIRED ==
    {"selected_files", "total_tokens", "total_files", "files_omitted",
     "files_summarized", "token_budget", "selection_strategy"}

\* FileSelectionResult(**kwargs): the dataclass constructor raises TypeError
\* when a field without default is not given
FileSelectionResult(kwargs) ==
    IF FILE_SELECTION_RESULT_REQUIRED \subseteq DOMAIN kwargs
      THEN [raised |-> None, value |-> Some(kwargs)]
      ELSE [raised |-> Some("TypeError"), value |-> None]

\* The keyword arguments with which each strategy constructs its result
\* (lines 311-317, 373-379, 413-419)
StrategyResultArgs ==
    [selected_files |-> frame.selected,
     total_tokens |-> frame.total_tokens,
     total_files |-> Len(frame.file_infos),
     files_omitted |-> Len(frame.file_infos) - Len(frame.selected),
     files_summarized |-> IF frame.strategy = "all" THEN 0
                          ELSE frame.files_summarized]

\* The strategy constructs its FileSelectionResult; select_files completes
\* it (lines 166-167) and returns it, or the constructor's error propagates
SelectFilesReturn ==
    /\ LoopDone
    /\ LET result == FileSelectionResult(StrategyResultArgs)
       IN  ret' = IF result.raised # None
                    THEN [op |-> "select_files", raised |-> result.raised,
                          value |-> None]
                    ELSE [op |-> "select_files", raised |-> None,
                          value |-> Some([f \in FILE_SELECTION_RESULT_REQUIRED |->
                                     IF f = "selection_strategy" THEN frame.strategy
                                     ELSE IF f = "token_budget" THEN frame.file_budget
                                     ELSE result.value[1][f]])]
    /\ pc' = "returned"
    /\ UNCHANGED <<frame, default_summarizer, handoff_state, policy_state, selector_state>>

InitSelector ==
    /\ pc = "idle"
    /\ frame = Idle
    /\ ret = NoRet
    /\ default_summarizer = FALSE
    /\ InitPolicyState
    /\ InitHandoffState
    /\ InitSelectorState

NextSelector ==
    \/ SelectFilesCall
    \/ SelectAllStep
    \/ SelectPriorityCritical
    \/ SelectPriorityBreak
    \/ SelectPriorityOther
    \/ SelectSummaryStep
    \/ SelectFilesReturn
    \/ Consume

SpecSelector == InitSelector /\ [][NextSelector]_vars

\* C2: every select_files call returns a result whose selected_files token
\* counts add up to total_tokens, with total_tokens not above the file
\* budget, whatever the strategy and whatever the summarizer returns
C2_SelectedWithinBudget ==
    Returned("select_files") =>
        /\ ret.raised = None
        /\ LET result == ret.value[1]
           IN  /\ SumSeq([k \in 1..Len(result.selected_files) |->
                             result.selected_files[k].token_count])
                      = result.total_tokens
               /\ result.total_tokens <= result.token_budget

\* ---------------------------------------------------------------------
\* Unregistered models
\* ---------------------------------------------------------------------
\* Content lengths around the fallback ceiling of 100,000 tokens: a part of
\* 50,001 tokens and one of 99,900
FallbackContentLens == {200004, 399603}

NextFallback ==
    \/ GetModelCapabilitiesFor(UnregisteredIds)
    \/ CalculateTokenOverheadFor(UnregisteredIds)
    \/ GetEffectiveTokenLimitFor(UnregisteredIds)
    \/ BuildContextCallFor({ID_UNKNOWN}, PartListsOver(FallbackContentLens))
    \/ BuildContextInclude
    \/ BuildContextSummarize
    \/ BuildContextDrop
    \/ BuildContextReturn
    \/ SelectFilesCallFor(UnregisteredIds, StrategyArgs)
    \/ SelectAllStep
    \/ SelectPriorityCritical
    \/ SelectPriorityBreak
    \/ SelectPriorityOther
    \/ SelectSummaryStep
    \/ SelectFilesReturn
    \/ Consume

\* One budgeter and one selector, each with a summarizer, and one file
InitFallback ==
    /\ pc = "idle"
    /\ frame = Idle
    /\ ret = NoRet
    /\ default_summarizer = TRUE
    /\ InitPolicyState
    /\ InitHandoffState
    /\ selector = [default_summarizer |-> TRUE, cache_summaries |-> TRUE]
    /\ disk = DiskOf(MISSING, Readable(CONTENT_BIG), MISSING)
    /\ file_cache = <<>>
    /\ summary_cache = <<>>
    /\ select_calls = 0
    /\ calls_made = NoCallsMade

SpecFallback == InitFallback /\ [][NextFallback]_vars

\* The registry functions and build_context on an unregistered id
UnregisteredRegistryAnswers ==
    /\ Returned("get_model_capabilities") => ret.result = None
    /\ Returned("calculate_token_overhead") => ret.result = 500
    /\ Returned("get_effective_token_limit") => ret.result = 100000
    /\ Returned("build_context") => ret.tokens_available = 100000

\* C8: on an unregistered model id every operation returns without error,
\* with the fixed constants: no capabilities, overhead 500, effective limit
\* 100,000, build_context ceiling 100,000, and a select_files result with
\* file budget 60,000 and the summary strategy under auto
C8_UnregisteredFallsBack ==
    /\ UnregisteredRegistryAnswers
    /\ Returned("select_files") =>
          /\ ret.raised = None
          /\ ret.value[1].token_budget = 60000
          /\ frame.strategy_arg = "auto" => ret.value[1].selection_strategy = "summary"

\* C10: a select_files call with strategy "auto" returns a result whose
\* selection_strategy is "all" for max_input_tokens >= 900,000, "priority"
\* for >= 400,000 and "summary" otherwise, unregistered models included
C10_AutoStrategyByCapacity ==
    (Returned("select_files") /\ frame.strategy_arg = "auto") =>
        /\ ret.raised = None
        /\ LET caps == get_model_capabilities(frame.model)
               capacity == IF caps = None THEN 0 ELSE caps[1].max_input_tokens
           IN  ret.value[1].selection_strategy =
                   IF capacity >= 900000 THEN "all"
                   ELSE IF capacity >= 400000 THEN "priority"
                   ELSE "summary"

\* ---------------------------------------------------------------------
\* Properties of build_context
\* ---------------------------------------------------------------------
InSeq(x, s) == \E k \in 1..Len(s) : s[k] = x

Count(x, s) == Cardinality({k \in 1..Len(s) : s[k] = x})

IncludedTokens == SumSeq([k \in 1..Len(frame.included_parts) |->
                             token_count(frame.included_parts[k])])

\* C1: build_context returns tokens_used <= tokens_available, tokens_used being
\* the sum of the token counts of the admitted parts (condensed parts at their
\* condensed size), for every model id, tool setting, JSON mode, output
\* reserve and part list.
C1_TokensUsedWithinAvailable ==
    Returned("build_context") =>
        /\ ret.tokens_used = IncludedTokens
        /\ ret.tokens_used <= ret.tokens_available

\* C5: build_context never stops on a part it cannot admit, and every input
\* part is accounted for exactly once: admitted in full, admitted condensed
\* (id in parts_summarized, "<id>_summarized" in parts_included) or listed in
\* parts_dropped; a hard-required part absent from the output is in
\* parts_dropped.
AccountedInFull(id) ==
    /\ Count(id, ret.parts_included) = 1
    /\ ~InSeq(SummarizedId(id), ret.parts_included)
    /\ ~InSeq(id, ret.parts_summarized)
    /\ ~InSeq(id, ret.parts_dropped)

AccountedCondensed(id) ==
    /\ Count(id, ret.parts_summarized) = 1
    /\ Count(SummarizedId(id), ret.parts_included) = 1
    /\ ~InSeq(id, ret.parts_included)
    /\ ~InSeq(id, ret.parts_dropped)

AccountedDropped(id) ==
    /\ Count(id, ret.parts_dropped) = 1
    /\ ~InSeq(id, ret.parts_included)
    /\ ~InSeq(SummarizedId(id), ret.parts_included)
    /\ ~InSeq(id, ret.parts_summarized)

NoOptionalEvaluatedYet ==
    \A k \in 1..(frame.i - 1) : frame.sorted_parts[k].hard_required

HardFirst ==
    BuildMore /\ CurPart.hard_required =>
        /\ NoOptionalEvaluatedYet
        /\ \A k \in 1..Len(frame.included_parts) : frame.included_parts[k].hard_required

HardAdmittedWhenItFits ==
    (/\ BuildMore /\ CurPart.hard_required
     /\ IncludedTokens + token_count(CurPart) <= frame.max_tokens
     /\ frame' # frame)
    => frame'.included_parts = Append(frame.included_parts, CurPart)

C6_HardRequiredBeforeOptional ==
    [][HardFirst' /\ HardAdmittedWhenItFits]_vars

\* An optional part of higher priority, given first, is dropped after a
\* hard-required part of lower priority was admitted in full.
C6_Witness ==
    /\ Returned("build_context")
    /\ Len(frame.parts) = 2
    /\ ~frame.parts[1].hard_required /\ frame.parts[2].hard_required
    /\ frame.parts[1].priority > frame.parts[2].priority
    /\ ret.parts_included = <<frame.parts[2].id>>
    /\ ret.parts_dropped = <<frame.parts[1].id>>

\* C7 (as stated): parts_included and final_text list the admitted parts in
\* descending order of numeric priority, the contents joined by exactly one
\* blank line.
JoinedByOneBlankLine ==
    /\ Len(ret.final_text) = (IF frame.included_parts = <<>> THEN 0
                              ELSE 2 * Len(frame.included_parts) - 1)
    /\ \A k \in 1..Len(frame.included_parts) :
          /\ <<ret.final_text[2 * k - 1]>> = frame.included_parts[k].content
          /\ ret.parts_included[k] = frame.included_parts[k].id
          /\ k > 1 => ret.final_text[2 * k - 2] = [src |-> "\n\n", len |-> 2]

C7_DescendingPriority ==
    Returned("build_context") =>
        /\ JoinedByOneBlankLine
        /\ \A a, b \in 1..Len(frame.included_parts) :
              a < b => frame.included_parts[a].priority >= frame.included_parts[b].priority

\* C7 (amended): the admitted parts are listed in descending order of the
\* pair (hard_required, priority): hard-required parts first, each group in
\* descending priority; the contents are joined by exactly one blank line.
C7_DescendingHardThenPriority ==
    Returned("build_context") =>
        /\ JoinedByOneBlankLine
        /\ \A a, b \in 1..Len(frame.included_parts) :
              a < b => ~KeyGreater(frame.included_parts[b], frame.included_parts[a])

\* Two optional parts given in ascending priority come out in descending
\* priority, joined by one blank line.
C7_Witness ==
    /\ Returned("build_context")
    /\ Len(frame.parts) = 2
    /\ ~frame.parts[1].hard_required /\ ~frame.parts[2].hard_required
    /\ frame.parts[1].priority < frame.parts[2].priority
    /\ ret.parts_included = <<frame.parts[2].id, frame.parts[1].id>>
    /\ Len(ret.final_text) = 3

\* ---------------------------------------------------------------------
\* Properties of the registry and of allocate_token_budget
\* ---------------------------------------------------------------------
\* C4: for a registered model and either JSON mode, the effective limit is
\* <= max_input_tokens, and with tools enabled it is strictly smaller for
\* tool_count + 1 than for tool_count.
C4_LimitBelowMaxAndDecreasing ==
    (Returned("get_effective_token_limit") /\ get_model_capabilities(frame.model_id) # None)
    => /\ ret.result <= get_model_capabilities(frame.model_id)[1].max_input_tokens
       /\ frame.tools_enabled =>
            get_effective_token_limit(frame.model_id, TRUE, frame.tool_count + 1,
                                      frame.json_mode) < ret.result

\* gpt-4.1 with one tool: int(929999.9999999999 - 580)
C4_Witness ==
    /\ Returned("get_effective_token_limit")
    /\ frame.model_id = ID_GPT41 /\ frame.tools_enabled /\ frame.tool_count = 1
    /\ ~frame.json_mode
    /\ ret.result = 929419

\* C9: allocate_token_budget raises exactly when the fractions sum to more
\* than 1.0; otherwise the values of the returned map sum to the effective
\* token limit, the remainder of the flooring going to "buffer" when that
\* category was given and to a new key "unallocated" otherwise.
C9_AllocationsSumToLimit ==
    Returned("allocate_token_budget") =>
        LET given == frame.budget_allocation
            limit == get_effective_token_limit(frame.model, frame.tools_enabled,
                                               frame.tool_count, FALSE)
            floors == [c \in DOMAIN given |-> IntTrunc(limit * given[c], 100)]
        IN  /\ ret.raised <=> SumValues(given) > 100
            /\ ~ret.raised =>
                 /\ SumValues(ret.result) = limit
                 /\ \A c \in DOMAIN given :
                       c # "buffer" => ret.result[c] = floors[c]
                 /\ "buffer" \in DOMAIN given =>
                       /\ DOMAIN ret.result = DOMAIN given
                       /\ ret.result["buffer"] = floors["buffer"] + (limit - SumValues(floors))

\* ---------------------------------------------------------------------
\* Properties of the reasoning policy
\* ---------------------------------------------------------------------
\* C3: after any sequence of get_reasoning_params and get_adaptive_params
\* calls, every returned reasoning_tokens is <= the reasoning_max_tokens of
\* the model it was requested for.
C3_TokensWithinModelMax ==
    (/\ pc = "returned"
     /\ ret.op \in {"get_reasoning_params", "get_adaptive_params"}
     /\ ret.result # None)
    => ret.result[1].reasoning_tokens <= get_max_reasoning_tokens(frame.model)[1]

\* C11: a get_reasoning_params call made while the allocation table holds
\* its initial values returns absent exactly for a model without reasoning
\* support, and otherwise reasoning_tokens =
\* min(floor(model_max * fraction(e)), c, model_max), with (e, c) the task's
\* default effort and ceiling, each replaced by the override when one is
\* supplied.
StatedAllocation(model, task_kind, override_effort, override_tokens) ==
    LET e == IF override_effort # None THEN override_effort[1]
             ELSE INITIAL_ALLOCATIONS[task_kind].effort
        c == IF override_tokens # None THEN override_tokens[1]
             ELSE INITIAL_ALLOCATIONS[task_kind].base_tokens
        model_max == get_max_reasoning_tokens(model)[1]
    IN  Min2(Min2((model_max * EFFORT_PERCENTAGES[e]) \div 1000, c), model_max)

C11_AllocationFormula ==
    [][(/\ pc = "idle"
        /\ DEFAULT_ALLOCATIONS = INITIAL_ALLOCATIONS
        /\ pc' = "returned"
        /\ ret'.op = "get_reasoning_params")
       => /\ (ret'.result = None) <=> ~supports_reasoning(frame'.model)
          /\ ret'.result # None =>
                ret'.result[1].reasoning_tokens =
                    StatedAllocation(frame'.model, frame'.task_kind,
                                     frame'.override_effort, frame'.override_tokens)]_vars

\* C12: in any state reached by earlier calls, get_adaptive_params(model,
\* task, n) returns what get_reasoning_params(model, task) returns in that
\* state, escalated exactly n-1 times by escalate_reasoning starting from the
\* task's default effort (attempt 1: the base unchanged), and the metadata
\* carries the attempt number and escalated = true exactly when n > 1 or
\* previous_failure is set.
StatedAdaptive(base, task_kind, attempt_number, previous_failure) ==
    LET esc == EscalateTimes(attempt_number - 1,
                             INITIAL_ALLOCATIONS[task_kind].effort,
                             base.reasoning_tokens)
        tagged == attempt_number > 1 \/ previous_failure
    IN  [base EXCEPT
            !.reasoning_tokens = esc[2],
            !.thinking_mode = IF attempt_number > 1 THEN esc[1] ELSE @,
            !.metadata.attempt = IF tagged THEN Some(attempt_number) ELSE None,
            !.metadata.escalated = tagged]

C12_AdaptiveIsBaseEscalated ==
    [][(/\ pc = "idle"
        /\ pc' = "returned"
        /\ ret'.op = "get_adaptive_params"
        /\ ret'.result # None)
       => LET task_kind == frame'.task_kind
              config == DEFAULT_ALLOCATIONS[task_kind]
              base == ReasoningParams(task_kind, config,
                                      ActualTokens(frame'.model, config))
          IN  ret'.result[1] = StatedAdaptive(base, task_kind, frame'.attempt_number,
                                              frame'.previous_failure)]_vars

\* C13: in a retry sequence of get_adaptive_params calls on one policy for
\* the same model and task with attempt_number = 1, 2, 3, ..., each attempt
\* gets at least the reasoning_tokens of the attempt before it.
C13_RetryTokensNeverDecrease ==
    [][(/\ pc = "idle"
        /\ pc' = "returned"
        /\ ret'.op = "get_adaptive_params"
        /\ ret'.result # None
        /\ last_adaptive # None
        /\ last_adaptive[1].model = frame'.model
        /\ last_adaptive[1].task = frame'.task_kind
        /\ last_adaptive[1].attempt + 1 = frame'.attempt_number)
       => ret'.result[1].reasoning_tokens >= last_adaptive[1].tokens]_vars

\* Position of an effort on the scale MINIMAL < LOW < MEDIUM < HIGH < MAX
EffortRank(effort) ==
    CHOOSE i \in 1..Len(ESCALATION_PATH) : ESCALATION_PATH[i] = effort

EscalateReturned == pc = "returned" /\ ret.op = "escalate_reasoning"

\* C14: escalate_reasoning below MAX returns the next level of the scale and
\* floor(1.5 * tokens); at MAX it returns its input unchanged; applied
\* repeatedly the tokens never decrease and the effort neither goes back nor
\* passes MAX.
C14_EscalateOneStep ==
    EscalateReturned =>
        LET e == frame.current_effort
            t == frame.current_tokens
        IN  /\ e # "max" =>
                   /\ EffortRank(ret.result[1]) = EffortRank(e) + 1
                   /\ ret.result[2] = (3 * t) \div 2
            /\ e = "max" => ret.result = <<e, t>>
            /\ ret.result[2] >= t
            /\ ret.result[2] >= frame.start_tokens
            /\ EffortRank(ret.result[1]) >= EffortRank(e)
            /\ EffortRank(e) >= EffortRank(frame.start_effort)
            /\ ret.result[1] \in Efforts

\* A chain that climbed from below MAX to MAX with growing tokens and was
\* then applied once more at MAX
C14_Witness ==
    /\ EscalateReturned
    /\ frame.start_effort = "high"
    /\ frame.start_tokens = 21333
    /\ frame.applications = 3
    /\ frame.current_effort = "max"
    /\ ret.result = <<"max", 31999>>

\* floor(1.5 * x) applied k times
RECURSIVE FloorTimes(_, _)
FloorTimes(k, t) == IF k <= 0 THEN t ELSE FloorTimes(k - 1, (3 * t) \div 2)

RECURSIVE Pow(_, _)
Pow(b, n) == IF n <= 0 THEN 1 ELSE b * Pow(b, n - 1)

\* C15 as stated: for any starting effort and tokens, the token value after
\* n applications of escalate_reasoning equals start * 1.5^n.
C15_TokensTimesOneAndAHalfToTheN ==
    EscalateReturned =>
        ret.result[2] * Pow(2, frame.applications)
            = frame.start_tokens * Pow(3, frame.applications)

\* C15 amended: after n applications from a start effort that is s steps
\* below MAX, the token value is the start value with floor(1.5 * x)
\* applied min(n, s) times.
C15_TokensFlooredUntilMax ==
    EscalateReturned =>
        ret.result[2] =
            FloorTimes(Min2(frame.applications,
                            Len(ESCALATION_PATH) - EffortRank(frame.start_effort)),
                       frame.start_tokens)

\* Four applications from (MEDIUM, 3): 3 -> 4 -> 6, then MAX holds 6 twice
C15_Witness ==
    /\ EscalateReturned
    /\ frame.start_effort = "medium"
    /\ frame.start_tokens = 3
    /\ frame.applications = 4
    /\ ret.result = <<"max", 6>>

OptimizeReturned ==
    pc = "idle" /\ pc' = "returned" /\ ret'.op = "optimize_for_target"

\* C16: optimize_for_target does not modify the envelope passed to it: its
\* findings, file_refs, key_constraints, requirements and metadata are after
\* the call what they were before, and the trimmed result is a separate
\* envelope.
C16_OptimizeLeavesInputAlone ==
    [][OptimizeReturned =>
          LET given == frame'.envelope
          IN  /\ envelopes'[given].findings = envelopes[given].findings
              /\ envelopes'[given].file_refs = envelopes[given].file_refs
              /\ envelopes'[given].key_constraints = envelopes[given].key_constraints
              /\ envelopes'[given].requirements = envelopes[given].requirements
              /\ envelopes'[given].metadata = envelopes[given].metadata
              /\ ret'.result # given]_vars

\* The capacity tier of a target model as the trimming rule states it
TargetTier(target_model) ==
    LET caps == get_model_capabilities(target_model)
    IN  IF caps = None THEN "unregistered"
        ELSE IF caps[1].max_input_tokens >= 900000 THEN "large"
        ELSE IF caps[1].max_input_tokens >= 400000 THEN "medium"
        ELSE "small"

\* The items of a list that satisfy keep(_), in their original order
Kept(items, keep(_)) == SelectSeq(items, keep)

IsTagged(ref, tags) == ref.relevance \in tags

\* C17: the envelope optimize_for_target returns is the given one trimmed by
\* the tier of the target: unregistered or >= 900,000 untouched; >= 400,000
\* the first 20 findings (metadata findings_truncated set when any were cut)
\* and only critical/important file references; smaller the first 5
\* findings, only critical file references, first 3 constraints and first 3
\* requirements; kept items in their order, every other field unchanged.
C17_TrimmedByTargetTier ==
    [][OptimizeReturned =>
          LET before == envelopes[frame'.envelope]
              after == envelopes'[ret'.result]
              tier == TargetTier(frame'.target_model)
              same(fields) == \A f \in DOMAIN before \ fields : after[f] = before[f]
          IN  /\ DOMAIN after = DOMAIN before
              /\ tier \in {"unregistered", "large"} => after = before
              /\ tier = "medium" =>
                    /\ after.findings = SubSeq(before.findings, 1,
                                               Min2(20, Len(before.findings)))
                    /\ after.file_refs =
                          Kept(before.file_refs,
                               LAMBDA ref : IsTagged(ref, {CRITICAL, IMPORTANT}))
                    /\ IF Len(before.findings) > 20
                         THEN /\ DOMAIN after.metadata =
                                    DOMAIN before.metadata \cup {"findings_truncated"}
                              /\ after.metadata.findings_truncated = TRUE
                              /\ \A k \in DOMAIN before.metadata \ {"findings_truncated"} :
                                    after.metadata[k] = before.metadata[k]
                         ELSE after.metadata = before.metadata
                    /\ same({"findings", "file_refs", "metadata"})
              /\ tier = "small" =>
                    /\ after.findings = SubSeq(before.findings, 1,
                                               Min2(5, Len(before.findings)))
                    /\ after.file_refs =
                          Kept(before.file_refs, LAMBDA ref : IsTagged(ref, {CRITICAL}))
                    /\ after.key_constraints =
                          SubSeq(before.key_constraints, 1,
                                 Min2(3, Len(before.key_constraints)))
                    /\ after.requirements =
                          SubSeq(before.requirements, 1,
                                 Min2(3, Len(before.requirements)))
                    /\ same({"findings", "file_refs", "key_constraints",
                             "requirements"})]_vars

\* A medium-tier call that cut 21 findings to 20, flagged the cut and dropped
\* the one related file reference out of four
C17_Witness ==
    /\ pc = "returned"
    /\ ret.op = "optimize_for_target"
    /\ frame.target_model = ID_GPT5
    /\ Len(envelopes[ret.result].findings) = 20
    /\ "findings_truncated" \in DOMAIN envelopes[ret.result].metadata
    /\ envelopes[ret.result].metadata.findings_truncated
    /\ Len(envelopes[ret.result].file_refs) = 3
    /\ Len(envelopes[ret.result].key_constraints) = 4

CreateOps == {"create_handoff", "create_continuation_handoff"}

\* The "Missing ..." entries of a validation error list
MissingErrors(errors) == SelectSeq(errors, LAMBDA t : t[1].src = "Missing ")

\* The required fields of an envelope that are empty
EmptyRequired(e) ==
    {f \in REQUIRED_FIELDS :
        IF f \in {"source_model", "target_model"} THEN Len(e[f]) = 0
        ELSE StrLen(e[f]) = 0}

\* One "Missing <field>" error for each empty required field
OneErrorPerEmptyField(errors, e) ==
    /\ {t[2].src : t \in {MissingErrors(errors)[i] : i \in 1..Len(MissingErrors(errors))}}
           = EmptyRequired(e)
    /\ Len(MissingErrors(errors)) = Cardinality(EmptyRequired(e))

\* C18: create_handoff and create_continuation_handoff return a new envelope
\* carrying the given fields whatever validation says; validate() lists one
\* error per empty field among stage_id, source_model, target_model,
\* task_summary, task_kind; each call appends exactly one record (timestamp,
\* source, target, stage) to handoff_history and nothing else touches it.
C18_CreateReturnsAndRecords ==
    [][/\ (pc = "idle" /\ pc' = "returned" /\ ret'.op \in CreateOps) =>
             LET e == envelopes'[ret'.result]
             IN  /\ ret'.result \in DOMAIN envelopes' \ DOMAIN envelopes
                 /\ e.stage_id = frame'.stage_id
                 /\ e.source_model = frame'.source_model
                 /\ e.target_model = frame'.target_model
                 /\ e.task_summary = frame'.task_summary
                 /\ e.task_kind = frame'.task_kind
                 /\ \A f \in DOMAIN frame'.kwargs : e[f] = frame'.kwargs[f]
                 /\ OneErrorPerEmptyField(frame'.errors, e)
                 /\ handoff_history' =
                        Append(handoff_history,
                               [timestamp |-> e.timestamp, source |-> e.source_model,
                                target |-> e.target_model, stage |-> e.stage_id])
       /\ (pc' = "returned" /\ ret'.op = "validate") =>
             OneErrorPerEmptyField(ret'.result, envelopes[frame'.envelope])
       /\ ~(pc = "idle" /\ pc' = "returned" /\ ret'.op \in CreateOps) =>
             handoff_history' = handoff_history]_vars

\* A second creation, a continuation whose validation failed, returned its
\* envelope and left two records in the history
C18_Witness ==
    /\ pc = "returned"
    /\ ret.op = "create_continuation_handoff"
    /\ frame.errors # <<>>
    /\ ret.result = 2
    /\ Len(handoff_history) = 2
    /\ handoff_history[1].stage = Text("analysis", 8)
    /\ handoff_history[2].stage = envelopes[2].stage_id

PolicyTaskSeq == <<"debugging", "summarization">>

ParamsReturned ==
    /\ pc = "idle"
    /\ pc' = "returned"
    /\ ret'.op \in {"get_reasoning_params", "get_adaptive_params"}

\* C20: every call to get_reasoning_params, direct or through
\* get_adaptive_params, adds exactly one record to the usage ledger, holding
\* the model, the task and the tokens and effort handed back to the caller;
\* nothing else changes the ledger; get_usage_summary reports calls = ledger
\* length and total_tokens = sum of the recorded tokens = sum of the per-task
\* subtotals.
C20_EveryCallRecorded ==
    [][/\ ParamsReturned =>
             /\ Len(usage_history') = Len(usage_history) + 1
             /\ SubSeq(usage_history', 1, Len(usage_history)) = usage_history
             /\ LET record == usage_history'[Len(usage_history')]
                IN  /\ record.model = frame'.model
                    /\ record.task = frame'.task_kind
                    /\ ret'.result # None
                    /\ record.tokens = ret'.result[1].reasoning_tokens
                    /\ record.effort = ret'.result[1].thinking_mode
       /\ ~ParamsReturned => usage_history' = usage_history
       /\ (pc' = "returned" /\ ret'.op = "get_usage_summary") =>
             LET summary == ret'.result
                 recorded == SumSeq([i \in 1..Len(usage_history) |->
                                        usage_history[i].tokens])
             IN  /\ summary.calls = Len(usage_history)
                 /\ summary.total_tokens = recorded
                 /\ usage_history # <<>> =>
                       recorded = SumSeq([i \in 1..Len(PolicyTaskSeq) |->
                                     IF PolicyTaskSeq[i] \in DOMAIN summary.by_task
                                       THEN summary.by_task[PolicyTaskSeq[i]].tokens
                                       ELSE 0])]_vars

\* ---------------------------------------------------------------------
\* Properties of the selection strategies
\* ---------------------------------------------------------------------
\* C21: under the priority strategy every CRITICAL candidate is processed in
\* the first pass, before any non-CRITICAL file, and is admitted in full
\* whenever its tokens fit in the budget remaining at its turn.
C21_CriticalFirstAndInFull ==
    [][/\ (InSelect("select_priority_1") /\ pc' = "select_priority_2") =>
             \A k \in 1..Len(frame.file_infos) :
                frame.file_infos[k].relevance_level = "CRITICAL" => k < frame.i
       /\ (InSelect("select_priority_1") /\ pc' = "select_priority_1"
              /\ frame.total_tokens + CurInfo.token_count <= frame.file_budget) =>
             frame'.selected = Append(frame.selected, CurInfo)
       /\ (InSelect("select_priority_2") /\ pc' = "select_priority_2"
              /\ frame.i <= Len(frame.file_infos)) =>
             \A k \in 1..Len(frame'.selected) :
                k > Len(frame.selected) =>
                    frame'.selected[k].relevance_level # "CRITICAL"]_vars

\* C22: the all strategy admits files in descending relevance order and
\* stops at the first file that would overshoot the budget: the selected
\* files are a prefix of the relevance-ordered candidate list.
C22_AllSelectsAPrefix ==
    (frame.op = "select_files" /\ frame.strategy = "all"
        /\ pc \in {"select_all", "returned"}) =>
        /\ frame.selected = SubSeq(frame.file_infos, 1, Len(frame.selected))
        /\ \A k \in 1..(Len(frame.selected) - 1) :
              frame.selected[k].relevance_score >= frame.selected[k + 1].relevance_score

\* ---------------------------------------------------------------------
\* build_context on the fallback ceiling of 100000 tokens, with parts that
\* leave 100 or 102 tokens, or that exceed the whole ceiling, and with
\* hard-required parts that bring a summarizer of their own next to the
\* default one
CondenseContentLens == {399603, 399592, 400004}
CondensePartChoices(i) ==
    UNION {{ContextPart(PartId(i), 100, Text(PartId(i), n), hr, sm, None) :
               n \in CondenseContentLens,
               sm \in IF hr THEN BOOLEAN ELSE {FALSE}} :
           hr \in BOOLEAN}
RECURSIVE CondenseListsOfLen(_)
CondenseListsOfLen(n) ==
    IF n = 0 THEN {<<>>}
    ELSE {Append(ps, p) : ps \in CondenseListsOfLen(n - 1), p \in CondensePartChoices(n)}
CondenseLists == UNION {CondenseListsOfLen(n) : n \in 0..MaxParts}

NextCondense ==
    \/ BuildContextCallFor({ID_UNKNOWN}, CondenseLists)
    \/ BuildContextInclude
    \/ BuildContextSummarize
    \/ BuildContextDrop
    \/ BuildContextReturn
    \/ Consume

SpecCondense == InitBudgeter /\ [][NextCondense]_vars

\* min(floor(remaining / 2), 500) for the part under the walk
CondenseTarget == Min2(RemainingTokens \div 2, 500)
\* One step of the walk over a part that does not fit: the walk moves on;
\* when a condensation is due, exactly one call is made, by the part's own
\* summarizer if it has one and else by the default one, with the target
\* above, and the condensed text is admitted iff it came back and its token
\* count is at most the remaining budget; when none is due, no call is made
\* and the part is dropped.
NonFittingPartRule(condensation_due) ==
    (BuildMore /\ ~Fits) =>
        /\ pc' = "build_context"
        /\ frame'.i = frame.i + 1
        /\ IF condensation_due
             THEN /\ Len(frame'.summarizer_calls) = Len(frame.summarizer_calls) + 1
                  /\ SubSeq(frame'.summarizer_calls, 1, Len(frame.summarizer_calls))
                        = frame.summarizer_calls
                  /\ LET call == frame'.summarizer_calls[Len(frame'.summarizer_calls)]
                     IN  /\ call.part = CurPart.id
                         /\ call.summarizer = IF CurPart.summarizer THEN "part"
                                              ELSE "default"
                         /\ call.target_tokens = CondenseTarget
                         /\ IF call.returned # None
                                 /\ call.returned[1] \div 4 <= RemainingTokens
                              THEN /\ Len(frame'.included_parts)
                                         = Len(frame.included_parts) + 1
                                   /\ LET admitted ==
                                            frame'.included_parts[Len(frame'.included_parts)]
                                      IN  /\ admitted.id = SummarizedId(CurPart.id)
                                          /\ StrLen(admitted.content) = call.returned[1]
                                          /\ admitted.original_id = Some(CurPart.id)
                                   /\ frame'.summarized_parts
                                         = Append(frame.summarized_parts, CurPart.id)
                                   /\ frame'.total_tokens
                                         = frame.total_tokens + call.returned[1] \div 4
                                   /\ frame'.dropped_parts = frame.dropped_parts
                              ELSE /\ frame'.dropped_parts
                                         = Append(frame.dropped_parts, CurPart.id)
                                   /\ frame'.included_parts = frame.included_parts
                                   /\ frame'.summarized_parts = frame.summarized_parts
                                   /\ frame'.total_tokens = frame.total_tokens
             ELSE /\ frame'.summarizer_calls = frame.summarizer_calls
                  /\ frame'.dropped_parts = Append(frame.dropped_parts, CurPart.id)
                  /\ frame'.included_parts = frame.included_parts
                  /\ frame'.summarized_parts = frame.summarized_parts
                  /\ frame'.total_tokens = frame.total_tokens

\* C23 as stated: a hard-required part that does not fit gets one condensation
\* attempt (own summarizer, else the default; target min(floor(remaining/2),
\* 500)) whenever a summarizer exists and the target is not below 50 tokens,
\* and is admitted condensed iff the condensed token count is at most the
\* remaining budget, else dropped; an optional part that does not fit is
\* dropped with no attempt; the walk continues.
C23_CondenseFromFifty ==
    [][NonFittingPartRule(CurPart.hard_required /\ HasSummarizer
                             /\ CondenseTarget >= 50)]_vars

\* C23 amended: the same, with the attempt made only when the target exceeds
\* 50 tokens; a hard-required part whose target is 50 or less is dropped with
\* no attempt.
C23_CondenseAboveFifty ==
    [][NonFittingPartRule(CurPart.hard_required /\ HasSummarizer
                             /\ CondenseTarget > 50)]_vars

\* A returned call on a budgeter with a default summarizer in which a
\* hard-required part was condensed by its own summarizer to the target of 500
\* tokens and admitted, and an optional part that did not fit was dropped
\* without a call
C23_Witness ==
    /\ pc = "returned" /\ ret.op = "build_context"
    /\ default_summarizer
    /\ Len(frame.summarizer_calls) = 1
    /\ frame.summarizer_calls[1].summarizer = "part"
    /\ frame.summarizer_calls[1].target_tokens = 500
    /\ ret.parts_summarized = <<frame.summarizer_calls[1].part>>
    /\ Len(ret.parts_dropped) = 1
    /\ \E k \in 1..Len(frame.sorted_parts) :
          /\ ~frame.sorted_parts[k].hard_required
          /\ frame.sorted_parts[k].id = ret.parts_dropped[1]

\* ---------------------------------------------------------------------
\* A FileSelector constructed without a summarizer
\* ---------------------------------------------------------------------
PlainSelectModels == {ID_O3, ID_GPT41}

InitPlainSelector ==
    /\ pc = "idle"
    /\ frame = Idle
    /\ ret = NoRet
    /\ default_summarizer = FALSE
    /\ InitPolicyState
    /\ InitHandoffState
    /\ selector = [default_summarizer |-> FALSE, cache_summaries |-> TRUE]
    /\ disk \in DiskChoices
    /\ file_cache = <<>>
    /\ summary_cache = <<>>
    /\ select_calls = 0
    /\ calls_made = NoCallsMade

NextPlainSelector ==
    \/ SelectFilesCallFor(PlainSelectModels, StrategyArgs)
    \/ SelectAllStep
    \/ SelectPriorityCritical
    \/ SelectPriorityBreak
    \/ SelectPriorityOther
    \/ SelectSummaryStep
    \/ SelectFilesReturn
    \/ Consume

SpecPlainSelector == InitPlainSelector /\ [][NextPlainSelector]_vars

\* C24: without a summarizer no strategy selects a condensed or an oversized
\* file: at every point of a selection every selected file has
\* is_summarized = FALSE and the content that is on disk, the count of
\* summarized files is 0 (in the loop and in what the strategy reports), the
\* selected files stay within the file budget (all, priority) or each within
\* the per-file share (summary), and a file already passed that exceeds the
\* per-file share is not among the selected ones.
C24_NoSummarizerNothingCondensed ==
    (frame.op = "select_files" /\ ~selector.default_summarizer) =>
        /\ frame.files_summarized = 0
        /\ StrategyResultArgs.files_summarized = 0
        /\ \A k \in 1..Len(frame.selected) :
              /\ ~frame.selected[k].is_summarized
              /\ frame.selected[k].content = disk[frame.selected[k].path].content
              /\ frame.selected[k].token_count
                    = StrLen(disk[frame.selected[k].path].content.text) \div 4
        /\ frame.total_tokens = SumSeq([k \in 1..Len(frame.selected) |->
                                           frame.selected[k].token_count])
        /\ IF DispatchPc(frame.strategy) = "select_summary"
             THEN /\ \A k \in 1..Len(frame.selected) :
                        frame.selected[k].token_count <= frame.tokens_per_file
                  /\ \A j \in 1..Len(frame.file_infos) :
                        (j < frame.i /\ frame.file_infos[j].token_count
                                            > frame.tokens_per_file) =>
                            \A k \in 1..Len(frame.selected) :
                               frame.selected[k].path # frame.file_infos[j].path
             ELSE frame.total_tokens <= frame.file_budget

\* A finished summary-strategy selection without a summarizer that took a file
\* and left out one that exceeds the per-file share
C24_Witness ==
    /\ pc = "returned" /\ frame.op = "select_files"
    /\ ~selector.default_summarizer
    /\ DispatchPc(frame.strategy) = "select_summary"
    /\ Len(frame.selected) >= 1
    /\ \E j \in 1..Len(frame.file_infos) :
          /\ frame.file_infos[j].token_count > frame.tokens_per_file
          /\ \A k \in 1..Len(frame.selected) :
                frame.selected[k].path # frame.file_infos[j].path

\* ---------------------------------------------------------------------
\* A FileSelector with a summarizer and summary caching on, called
\* repeatedly
\* ---------------------------------------------------------------------
CachingSelectModels == {ID_O3}

CachingStrategyArgs == {"all", "priority", "summary"}

\* Two files of the same content next to a small one; an unreadable path
CachingDiskChoices ==
    {DiskOf(Readable(CONTENT_BIG), Readable(CONTENT_BIG), Readable(CONTENT_SMALL)),
     DiskOf(UNREADABLE, Readable(CONTENT_BIG), Readable(CONTENT_EMPTY))}

InitCachingSelector ==
    /\ pc = "idle"
    /\ frame = Idle
    /\ ret = NoRet
    /\ default_summarizer = FALSE
    /\ InitPolicyState
    /\ InitHandoffState
    /\ selector = [default_summarizer |-> TRUE, cache_summaries |-> TRUE]
    /\ disk \in CachingDiskChoices
    /\ file_cache = <<>>
    /\ summary_cache = <<>>
    /\ select_calls = 0
    /\ calls_made = NoCallsMade

NextCachingSelector ==
    \/ SelectFilesCallFor(CachingSelectModels, CachingStrategyArgs)
    \/ SelectAllStep
    \/ SelectPriorityCritical
    \/ SelectPriorityBreak
    \/ SelectPriorityOther
    \/ SelectSummaryStep
    \/ SelectFilesReturn
    \/ Consume

SpecCachingSelector == InitCachingSelector /\ [][NextCachingSelector]_vars

\* How often the counter f counted key
CountOf(f, key) == IF key \in DOMAIN f THEN f[key] ELSE 0

SummaryKeys == (DOMAIN calls_made.returned) \cup (DOMAIN calls_made.raised)

\* Each path is read from disk at most once, and the cache holds what was read
EachPathReadOnce ==
    /\ \A p \in DOMAIN calls_made.reads : calls_made.reads[p] <= 1
    /\ DOMAIN file_cache = DOMAIN calls_made.reads
    /\ \A p \in DOMAIN file_cache : file_cache[p] = disk[p].content

\* What a call computes for a path is what is on disk, whatever was condensed
\* before: the hash of every loaded file, and the content and token count of
\* every file not condensed in this call
ComputedFromDisk ==
    frame.op = "select_files" =>
        \A k \in 1..Len(frame.file_infos) :
            LET f == frame.file_infos[k]
            IN  /\ f.file_hash = compute_hash(disk[f.path].content)
                /\ ~f.is_summarized =>
                      /\ f.content = disk[f.path].content
                      /\ f.token_count = StrLen(disk[f.path].content.text) \div 4

\* Every condensed file selected carries the text the cache holds for its
\* pair (the text names the target it was made for)
CachedTextServed ==
    frame.op = "select_files" =>
        \A k \in 1..Len(frame.selected) :
            LET f == frame.selected[k]
            IN  f.is_summarized =>
                  LET key == <<f.file_hash, f.content.text[1].src[3]>>
                  IN  /\ key \in DOMAIN summary_cache
                      /\ summary_cache[key] = f.content

\* A cached text is never replaced or removed
CachedTextKept ==
    \A key \in DOMAIN summary_cache :
        key \in DOMAIN summary_cache' /\ summary_cache'[key] = summary_cache[key]

\* C25 as stated: with summary caching on, across any sequence of select_files
\* calls on one instance the summarizer is invoked at most once per distinct
\* (content hash, target) pair and every later request gets the same cached
\* text; each path is read from disk at most once; condensing a file never
\* changes the content, hash or token count later calls compute for its path.
C25_InvokedOncePerPair ==
    [][/\ (/\ \A key \in SummaryKeys :
                 CountOf(calls_made.returned, key)
                    + CountOf(calls_made.raised, key) <= 1
           /\ EachPathReadOnce
           /\ ComputedFromDisk
           /\ CachedTextServed)'
       /\ CachedTextKept]_vars

\* C25 amended: the same, with at most one invocation per pair that returns;
\* an invocation that raises caches nothing and the pair is invoked again at
\* its next request.
C25_ReturnedOncePerPair ==
    [][/\ (/\ \A key \in SummaryKeys :
                 /\ CountOf(calls_made.returned, key) <= 1
                 /\ key \in DOMAIN summary_cache
                       <=> CountOf(calls_made.returned, key) = 1
           /\ EachPathReadOnce
           /\ ComputedFromDisk
           /\ CachedTextServed)'
       /\ CachedTextKept]_vars

\* Two files of the same content condensed in a second call, after one
\* invocation that raised and one that returned for their pair
C25_Witness ==
    /\ pc = "returned" /\ frame.op = "select_files"
    /\ select_calls = 2
    /\ frame.files_summarized = 2
    /\ \E key \in SummaryKeys :
          /\ CountOf(calls_made.returned, key) = 1
          /\ CountOf(calls_made.raised, key) = 1
          /\ \A k \in 1..Len(frame.selected) :
                /\ frame.selected[k].is_summarized
                /\ frame.selected[k].content = summary_cache[key]

\* The positions of the files list whose path exists and can be read
ReadableCandidates ==
    {k \in 1..Len(frame.files) :
        disk[frame.files[k]].exists /\ disk[frame.files[k]].readable}

\* C26: a select_files call whose list holds a missing or an unreadable path
\* does not raise: it returns a result in which total_files is the number of
\* readable candidates and files_omitted is total_files minus the number of
\* selected files, never negative.
C26_MissingPathsLeftOut ==
    (Returned("select_files")
        /\ ReadableCandidates # 1..Len(frame.files)) =>
        /\ ret.raised = None
        /\ LET result == ret.value[1]
           IN  /\ result.total_files = Cardinality(ReadableCandidates)
               /\ result.files_omitted
                     = result.total_files - Len(result.selected_files)
               /\ result.files_omitted >= 0

\* ---------------------------------------------------------------------
\* FileSelector._calculate_relevance on its own
\* ---------------------------------------------------------------------
RelevanceTasks ==
    {None, Some(<<>>),
     Some(<<"debug", "project", "auth", "error">>),
     Some(<<"fix", "bug">>),
     Some(<<"config", "test">>),
     Some(<<"auth", "error", "config">>)}

RelevanceContents == {CONTENT_SMALL, CONTENT_BIG, CONTENT_EMPTY}

CalculateRelevanceCall ==
    /\ pc = "idle"
    /\ \E file_path \in Paths, content \in RelevanceContents,
          task_context \in RelevanceTasks, is_mentioned \in BOOLEAN,
          is_error \in BOOLEAN :
         LET r == calculate_relevance(file_path, content, task_context,
                                      is_mentioned, is_error)
         IN  /\ frame' = [op |-> "calculate_relevance", file_path |-> file_path,
                          content |-> content, task_context |-> task_context,
                          is_mentioned |-> is_mentioned, is_error |-> is_error]
             /\ ret' = [op |-> "calculate_relevance", score |-> r[1], level |-> r[2]]
    /\ pc' = "returned"
    /\ UNCHANGED <<default_summarizer, handoff_state, policy_state, selector_state>>

InitRelevance ==
    /\ pc = "idle"
    /\ frame = Idle
    /\ ret = NoRet
    /\ default_summarizer = FALSE
    /\ InitPolicyState
    /\ InitHandoffState
    /\ NoSelectorState

NextRelevance ==
    \/ CalculateRelevanceCall
    \/ Consume

SpecRelevance == InitRelevance /\ [][NextRelevance]_vars

\* The task has a keyword (a word of more than three characters) that occurs
\* in the path or in the head of the content
KeywordOverlap ==
    /\ frame.task_context # None
    /\ \E k \in 1..Len(frame.task_context[1]) :
          LET w == frame.task_context[1][k]
          IN  /\ WordLen(w) > 3
              /\ \/ w \in PathWords(frame.file_path)
                 \/ w \in frame.content.words

\* C27: _calculate_relevance returns (100, CRITICAL) for a mentioned file,
\* (95, CRITICAL) for an error-flagged file that is not mentioned, and
\* otherwise a score from 20 to 99 with the level HIGH from 80, MEDIUM from
\* 60, LOW from 40 and MINIMAL below; the level is CRITICAL iff the file is
\* mentioned or error-flagged; a documentation file without task-keyword
\* overlap scores strictly below the 95 of an error-flagged file.
C27_RelevanceBands ==
    Returned("calculate_relevance") =>
        /\ frame.is_mentioned => ret.score = 100 /\ ret.level = "CRITICAL"
        /\ (~frame.is_mentioned /\ frame.is_error) =>
              ret.score = 95 /\ ret.level = "CRITICAL"
        /\ (~frame.is_mentioned /\ ~frame.is_error) =>
              /\ ret.score >= 20 /\ ret.score <= 99
              /\ ret.level = CASE ret.score >= 80 -> "HIGH"
                               [] ret.score >= 60 /\ ret.score < 80 -> "MEDIUM"
                               [] ret.score >= 40 /\ ret.score < 60 -> "LOW"
                               [] OTHER -> "MINIMAL"
              /\ (PathSuffix(frame.file_path) = ".md" /\ ~KeywordOverlap) =>
                    ret.score < 95
        /\ ret.level = "CRITICAL" <=> (frame.is_mentioned \/ frame.is_error)

\* A file neither mentioned nor error-flagged whose boosts exceed the cap:
\* it is scored 99 and HIGH
C27_Witness ==
    /\ Returned("calculate_relevance")
    /\ ~frame.is_mentioned /\ ~frame.is_error
    /\ frame.task_context # None
    /\ BaseScore(frame.file_path)
          + KeywordBoost(frame.task_context[1], frame.file_path, frame.content) > 99
    /\ ret.score = 99 /\ ret.level = "HIGH"

\* C28: no operation changes the per-task default allocation table, and
\* get_reasoning_params(model, task) without overrides returns the thinking
\* mode and the reasoning tokens of the table as first defined, at every point
\* of any call sequence.
C28_DefaultTableNeverChanges ==
    [][/\ DEFAULT_ALLOCATIONS' = DEFAULT_ALLOCATIONS
       /\ (/\ pc' = "returned"
           /\ ret'.op = "get_reasoning_params"
           /\ ret'.result # None
           /\ frame'.override_effort = None
           /\ frame'.override_tokens = None)
          => LET config == INITIAL_ALLOCATIONS[frame'.task_kind]
             IN  /\ ret'.result[1].thinking_mode = config.effort
                 /\ ret'.result[1].reasoning_tokens
                       = ActualTokens(frame'.model, config)]_vars

\* C29: the token estimate of the text build_context returns, len(final_text)
\* // 4 with the blank-line separators counted, never exceeds
\* tokens_available.
C29_FinalTextWithinAvailable ==
    Returned("build_context") =>
        default_tokenizer(ret.final_text) <= ret.tokens_available

\* The name of the strategy whose loop a call ran
ExecutedStrategy ==
    CASE DispatchPc(frame.strategy) = "select_all" -> "all"
      [] DispatchPc(frame.strategy) = "select_priority_1" -> "priority"
      [] OTHER -> "summary"

\* C30: whatever the strategy argument, select_files returns a result whose
\* selection_strategy is one of "all", "priority", "summary" and names the
\* strategy that was executed, and whose token_budget is the budget that
\* strategy ran with.
C30_ResultNamesExecutedStrategy ==
    Returned("select_files") =>
        /\ ret.raised = None
        /\ ret.value[1].selection_strategy \in {"all", "priority", "summary"}
        /\ ret.value[1].selection_strategy = ExecutedStrategy
        /\ ret.value[1].token_budget = frame.file_budget

====
